---- MODULE Spec2Model ----
(***************************************************************************)
(* State-machine model of the qontinui-runner front end.                   *)
(*                                                                         *)
(*   SpecRec : the RecordingControl component (recording session, status   *)
(*             polling, executor-event listener, history) together with    *)
(*             the engine as seen through invoke() and the event channel.  *)
(*             App appears as the owner of the props: pythonStatus,        *)
(*             configLoaded and onLog, whose sink is kept as its last      *)
(*             entry.                                                      *)
(*   SpecApp : the App component of part_001 (mount effect, executor-event *)
(*             listener, general log, configuration load, execution start  *)
(*             and stop) with RecordingControl at rest.                    *)
(*   SpecCrash  : RecordingControl with an engine that may crash.          *)
(*   SpecImport : RecordingControl with the auto-import setting in use.    *)
(*   SpecExec   : App's load / start / stop pipeline with an engine that   *)
(*                completes a run on its own.                              *)
(*   SpecSpawn  : the engine start of src/src/App.tsx.                     *)
(*   SpecSinks  : App's listener and its three sinks under a stream of     *)
(*                events with increasing sequence numbers.                 *)
(*   SpecStale  : the same with messages that are delivered again.         *)
(*   SpecFault  : App with an engine that reports errors and may crash.    *)
(*   SpecEngine : load, execution and engine stop of src/src/App.tsx.      *)
(*   SpecIndicator : the error notification of StatusIndicator and its    *)
(*                auto-hide timer.                                         *)
(*   SpecCodec  : a command from the Command Facade through the Protocol   *)
(*                Codec to the reader.                                     *)
(*                                                                         *)
(* React is modelled at commit granularity: a handler's state updates, the *)
(* render they schedule and the effects of that render (cleanup of the     *)
(* previous effect instance, then the new body) form one step.  What is    *)
(* asynchronous in the code stays asynchronous here: every await (invoke,  *)
(* fetch, listen) splits its function into separate steps.                 *)
(***************************************************************************)
EXTENDS Integers, Sequences, FiniteSets, TLC

\* ------------------------------------------------------------------ bounds
MaxTicks    == 1      \* steps of 1.5 s the clock advances
MaxRuns     == 1      \* recording sessions the engine starts
MaxPolls    == 1      \* status queries in flight at once
MaxQueue    == 1      \* events emitted and not yet delivered
MaxZombies  == 1      \* listeners whose effect was cleaned up before listen() resolved
MaxImports  == 2      \* import requests in flight at once
MaxLogs     == 3      \* entries in the general log sink
MaxLogId    == 6      \* ids logIdRef hands out
MaxProcs    == 1      \* processes in a configuration
MaxStarts   == 2      \* handleStartPython calls in flight at once
MaxSeq      == 4      \* sequence numbers the engine hands out
MaxText     == 2      \* characters in a string of a command
MaxHideTimers == 2    \* auto-hide timers pending at once

\* ------------------------------------------------------- program constants
HistoryKeep == 4      \* prev.slice(0, 4)
MsPerSecond == 1000   \* Math.floor((stop - start) / 1000)
AutoHideSeconds == 5  \* setTimeout(..., 5000)

\* ErrorEvent payloads: severity and error_code; NoError is null.
Severities  == {"info", "warning", "error", "critical"}
ErrorCodes  == {1, 2}
ErrorEvents == [severity : Severities, error_code : ErrorCodes]
NoError     == [severity |-> "none", error_code |-> 0]
ConnectionStatuses == {"connected", "disconnected", "connecting"}

NoStats == [def |-> FALSE, actions_recorded |-> 0, screenshots_captured |-> 0]
SomeStats(a, s) == [def |-> TRUE, actions_recorded |-> a, screenshots_captured |-> s]
StatsSet == {NoStats, SomeStats(3, 2)}

Min(a, b) == IF a < b THEN a ELSE b

VARIABLES
  \* RecordingControl props (owned by App)
  pythonStatus, configLoaded,
  \* RecordingControl state
  recordingStatus,      \* [isRecording, snapshotDirectory (0 = undefined), statistics]
  pollingInterval,      \* 0 = null, else the interval id
  recordingStartTime,   \* 0 = null
  history,              \* most recent first
  autoImport,           \* settings.autoImport
  isImporting,
  \* browser / runtime
  now,                  \* Date.now()
  timers,               \* live window.setInterval ids
  nextTimer,            \* next id window.setInterval returns
  cur,                  \* listener of the current effect instance: [closure, reg]
  zombies,              \* listeners of cleaned-up effect instances, never unlistened
  lastLog,              \* last entry of the general log sink (onLog = addLog)
  \* calls in flight
  startCmd, stopCmd,    \* "none" | "sent" | "ok" | "fail" | "throw"
  startDir, stopDir,    \* snapshot_directory of the result (0 = undefined)
  stopStart,            \* recordingStartTime closed over by the pending handleStopRecording
  polls,                \* get_recording_status calls: "sent" or the response
  imports,              \* fetch(.../import) calls: the directories
  \* engine and event channel
  engRecording,         \* the engine is recording
  engRun,               \* number of the engine's latest recording run
  events,               \* emitted, not yet delivered (FIFO)
  \* observation
  note,                 \* what the last step was, when it leaves no other trace:
                        \* a click on a disabled control, a failed status poll,
                        \* a status poll that ended the session
  \* App state
  executionActive,
  selectedProcess,      \* 0 = ""
  processes,            \* ids of the loaded "main" processes
  logs,                 \* the general log sink
  logIdRef,
  \* App: runtime and calls in flight
  appListener,          \* "pending" | "registered"
  statusCheck,          \* get_executor_status at mount: "sent" | "done"
  loadStage,            \* where handleLoadConfiguration is
  loadPy,               \* pythonStatus its closure captured
  execCmd,              \* handleStartExecution: "none" | "minimizing" | "sent" | result
  execProc,             \* processId it captured
  stopExec,             \* handleStopExecution: "none" | "sent" | result
  \* engine process and App's event channel
  pyProc,               \* "stopped" | "running" | "crashed"
  engExecuting,         \* the engine is running a process
  engProcs,             \* engine processes spawned and not exited
  pyStarts,             \* handleStartPython calls in flight (src/src/App.tsx)
  imageLogs,            \* imageRecognitionLogs: the recognition-diagnostics sink
  actionLogs,           \* actionExecutionLogs: the action-diagnostics sink
  engSeq,               \* sequence number of the engine's latest event
  codec,                \* the command channel: command, bytes on the wire, decoded
  stopPy,               \* handleStopPython's call in flight (src/src/App.tsx)
  \* StatusIndicator state
  error,                \* the notification last received, or NoError (null)
  showError,
  connectionStatus,
  \* StatusIndicator: runtime
  errorListener,        \* listen('error') and listen('connection-status'):
                        \* "pending" | "registered"
  hideTimers,           \* pending setTimeout callbacks: seconds left, oldest first
  appEvents

appOwn  == <<executionActive, selectedProcess, processes, logs, logIdRef,
             appListener, statusCheck, loadStage, loadPy, execCmd, execProc,
             stopExec, pyProc, engExecuting, engProcs, pyStarts, imageLogs,
             actionLogs, engSeq, appEvents>>

recOwn  == <<recordingStatus, pollingInterval, recordingStartTime, history,
             autoImport, isImporting, timers, nextTimer, cur, zombies, lastLog,
             startCmd, stopCmd, startDir, stopDir, stopStart, polls, imports,
             engRecording, engRun, events>>

\* Both components submit their commands through the one command channel;
\* neither RecordingControl nor App of part_001 stops the engine.
\* StatusIndicator is rendered by App and shares no state with it.
indVars == <<error, showError, connectionStatus, errorListener, hideTimers>>

appVars == <<appOwn, codec, stopPy, indVars>>
recVars == <<recOwn, codec, stopPy, indVars>>

vars == <<pythonStatus, configLoaded, now, note, recVars, appVars>>

\* ------------------------------------------------------------ pure helpers

\* The engine records run k into a fresh timestamped directory; directories
\* are named here by the number of their run.
DirOf(k) == k

\* Date.now() at mount is 1000; the clock advances in steps of 1500 ms.
ClockEnd == 1000 + 1500 * MaxTicks

\* toLocaleTimeString(hour, minute, second): the second the instant falls in.
TimeStamp(t) == t \div MsPerSecond

\* Math.floor((stopTime - recordingStartTime) / 1000), 0 when no start time.
Duration(startTime, stopTime) ==
  IF startTime # 0 THEN (stopTime - startTime) \div MsPerSecond ELSE 0

\* Faulty variant of AddHistoryEntry: keeps five previous entries.
AddHistoryEntry_KeepFive(prev, entry) ==
  <<entry>> \o SubSeq(prev, 1, Min(Len(prev), HistoryKeep + 1))

\* [newEntry, ...prev.slice(0, 4)]
AddHistoryEntry(prev, entry) ==
  <<entry>> \o SubSeq(prev, 1, Min(Len(prev), HistoryKeep))

\* The entry the recording_stopped handler builds from the event and from
\* the recordingStartTime / statistics its closure captured.
NewEntry(e, closure, stopTime) ==
  [ runId           |-> e.run_id,
    timestamp       |-> stopTime,
    directory       |-> e.dir,
    actionCount     |-> closure.statistics.actions_recorded,
    screenshotCount |-> closure.statistics.screenshots_captured,
    duration        |-> Duration(closure.startTime, stopTime),
    status          |-> "success" ]

\* An entry restored from localStorage("recordingHistory"); run ids of
\* earlier program runs are negative here.
OldEntry(k) ==
  [ runId |-> 0 - k, timestamp |-> 0, directory |-> 0, actionCount |-> 0,
    screenshotCount |-> 0, duration |-> 0, status |-> "success" ]

\* A stored history of n entries, most recent first.
StoredHistory(n) == [i \in 1..n |-> OldEntry(n + 1 - i)]

\* addLog on the last entry of the sink: the candidate is dropped when it
\* equals the last entry in timestamp, level and message.
Msg(text, dir, a, b, c) == [text |-> text, dir |-> dir, a |-> a, b |-> b, c |-> c]
LogCandidate(level, msg) == [timestamp |-> TimeStamp(now), level |-> level, message |-> msg]
\* Faulty variant of IsDuplicate: compares the message only.
IsDuplicate_MessageOnly(last, cand) == last.message = cand.message

IsDuplicate(last, cand) ==
  /\ last.timestamp = cand.timestamp
  /\ last.message = cand.message
  /\ last.level = cand.level

\* The updater addLog passes to setLogs, with logIdRef before it:
\* [logs, id] after it.
AddLog(prev, id, cand) ==
  IF Len(prev) > 0 /\ IsDuplicate(prev[Len(prev)], cand)
    THEN [logs |-> prev, id |-> id]
    ELSE [logs |-> Append(prev, [id |-> id + 1, timestamp |-> cand.timestamp,
                                 level |-> cand.level, message |-> cand.message]),
          id |-> id + 1]

\* addLog called for each candidate in order.
RECURSIVE AddLogAll(_, _, _)
AddLogAll(prev, id, cs) ==
  IF cs = <<>> THEN [logs |-> prev, id |-> id]
  ELSE LET r == AddLog(prev, id, Head(cs))
       IN  AddLogAll(r.logs, r.id, Tail(cs))

NoLog == [timestamp |-> 0, level |-> "none", message |-> Msg("none", 0, 0, 0, 0)]

\* onLog called with the candidates cs in order, starting from sink end l:
\* <<new sink end, whether App re-rendered (some candidate was appended)>>.
RECURSIVE OnLogAll(_, _)
OnLogAll(l, cs) ==
  IF cs = <<>> THEN <<l, FALSE>>
  ELSE LET rest == OnLogAll(Head(cs), Tail(cs))
       IN  <<rest[1], rest[2] \/ ~IsDuplicate(l, Head(cs))>>

\* Faulty variant of canRecord: ignores the configuration.
canRecord_PythonOnly == pythonStatus = "running"

canRecord == pythonStatus = "running" /\ configLoaded

Closure(st, stats, ai) == [startTime |-> st, statistics |-> stats, autoImport |-> ai]

Registered(l) == l.reg = "registered"

\* ------------------------------------------------------------ React effects

RecStatus(isRec, dir, stats) ==
  [isRecording |-> isRec, snapshotDirectory |-> dir, statistics |-> stats]

\* Cleanup of the polling effect: clearInterval of the pollingInterval its
\* render closed over.
PollCleanup(pi, ts) == IF pi # 0 THEN ts \ {pi} ELSE ts

\* Faulty variant of PollBody: starts an interval without looking at the
\* one it already holds.
PollBody_NoGuard(isRec, pi, ts, next) ==
  IF isRec
    THEN [pi |-> next, timers |-> ts \cup {next}, next |-> next + 1]
  ELSE IF pi # 0
    THEN [pi |-> 0, timers |-> ts \ {pi}, next |-> next]
  ELSE [pi |-> pi, timers |-> ts, next |-> next]

\* Body of the polling effect for a render with (isRec, pi).
PollBody(isRec, pi, ts, next) ==
  IF isRec /\ pi = 0
    THEN [pi |-> next, timers |-> ts \cup {next}, next |-> next + 1]
  ELSE IF ~isRec /\ pi # 0
    THEN [pi |-> 0, timers |-> ts \ {pi}, next |-> next]
  ELSE [pi |-> pi, timers |-> ts, next |-> next]

\* The polling effect over the renders one update of isRecording causes:
\* the render with the new isRecording, then the render setPollingInterval
\* schedules (with the cleanup of the render before it).
PollingEffect(isRec) ==
  IF isRec = recordingStatus.isRecording
    THEN [pi |-> pollingInterval, timers |-> timers, next |-> nextTimer]
  ELSE LET r1 == PollBody(isRec, pollingInterval,
                          PollCleanup(pollingInterval, timers), nextTimer)
       IN  IF r1.pi = pollingInterval THEN r1
           ELSE PollBody(isRec, r1.pi, PollCleanup(pollingInterval, r1.timers), r1.next)

\* Dependency list of the listener effect:
\* [onLog, recordingStartTime, recordingStatus.statistics, settings.autoImport].
\* statistics is compared by identity: every setRecordingStatus that carries
\* or replaces a statistics object changes it.
ListenerDepsChanged(rs, statusSet, st, ai, appRendered) ==
  \/ appRendered
  \/ st # recordingStartTime
  \/ statusSet /\ (rs.statistics.def \/ recordingStatus.statistics.def)
  \/ ai # autoImport

\* The commit that follows a handler: the new state, then the effects whose
\* dependencies changed.  appRendered: App rendered too (new onLog identity).
Commit(rs, statusSet, st, ai, appRendered) ==
  LET rerun == ListenerDepsChanged(rs, statusSet, st, ai, appRendered)
      p     == PollingEffect(rs.isRecording)
  IN  /\ recordingStatus' = rs
      /\ recordingStartTime' = st
      /\ autoImport' = ai
      /\ pollingInterval' = p.pi
      /\ timers' = p.timers
      /\ nextTimer' = p.next
      /\ IF ~rerun THEN UNCHANGED <<cur, zombies>>
         ELSE \* cleanup: unlisten() only if listen() has resolved by now
              /\ ~Registered(cur) => Len(zombies) < MaxZombies
              /\ zombies' = IF Registered(cur) THEN zombies ELSE Append(zombies, cur)
              \* body: setupListeners() with this render's closure
              /\ cur' = [closure |-> Closure(st, rs.statistics, ai), reg |-> "pending"]

\* A commit that changes no RecordingControl state.
CommitSame(appRendered) ==
  Commit(recordingStatus, FALSE, recordingStartTime, autoImport, appRendered)

\* onLog(level, msg) for each candidate in order, then the commit.
LogAndCommit(cands, rs, statusSet, st, ai) ==
  LET r == OnLogAll(lastLog, cands)
  IN  /\ lastLog' = r[1]
      /\ Commit(rs, statusSet, st, ai, r[2])

\* ------------------------------------------------------------ Protocol Codec
\* A command is one line on the engine's stdin: a JSON object with the
\* fields id, command and params (config_path, mode) in this order.  Strings
\* are sequences of characters, of which the quotation mark, the backslash
\* and the line feed have a meaning on the wire.

Chars        == {"a", "n", "quote", "bslash", "newline"}
Texts        == UNION {[1..k -> Chars] : k \in 0..MaxText}
CommandNames == {"start", "stop", "pause", "resume"}
Modes        == {"state_machine", "sequential"}

Command(id, name, path, mode) ==
  [id |-> id, command |-> name, params |-> [config_path |-> path, mode |-> mode]]

Commands ==
  {Command(id, name, path, mode) :
     id \in Texts \ {<<>>}, name \in CommandNames, path \in Texts, mode \in Modes}

ProtocolError == [error |-> "ProtocolError"]
NoCommand     == [error |-> "none"]
IdleCodec     == [cmd |-> NoCommand, wire |-> <<>>, decoded |-> NoCommand]

\* The escape sequence of one character of a string.
EscapeChar(ch) ==
  IF ch \in {"quote", "bslash"} THEN <<"bslash", ch>>
  ELSE IF ch = "newline" THEN <<"bslash", "n">>
  ELSE <<ch>>

\* Faulty variant of Escape: writes the characters as they are.
Escape_Raw(text) == text

RECURSIVE Escape(_)
Escape(text) ==
  IF text = <<>> THEN <<>> ELSE EscapeChar(Head(text)) \o Escape(Tail(text))

EncodeString(text) == <<"quote">> \o Escape(text) \o <<"quote">>

\* The line written for command c, its terminating line feed included.
Encode(c) ==
  <<"{">> \o EncodeString(c.id)
    \o <<",", c.command, ",">> \o EncodeString(c.params.config_path)
    \o <<",", c.params.mode, "}", "newline">>

\* Reads a string whose opening quotation mark has been consumed:
\* [ok, value, rest], rest being what follows the closing quotation mark.
RECURSIVE ScanString(_, _)
ScanString(w, acc) ==
  IF w = <<>> THEN [ok |-> FALSE, value |-> acc, rest |-> <<>>]
  ELSE IF Head(w) = "quote" THEN [ok |-> TRUE, value |-> acc, rest |-> Tail(w)]
  ELSE IF Head(w) = "bslash"
    THEN IF Len(w) < 2 THEN [ok |-> FALSE, value |-> acc, rest |-> <<>>]
         ELSE ScanString(SubSeq(w, 3, Len(w)),
                         Append(acc, IF w[2] = "n" THEN "newline" ELSE w[2]))
  ELSE ScanString(Tail(w), Append(acc, Head(w)))

ReadString(w) ==
  IF w # <<>> /\ Head(w) = "quote" THEN ScanString(Tail(w), <<>>)
  ELSE [ok |-> FALSE, value |-> <<>>, rest |-> <<>>]

\* The bytes up to the first line feed: the line the reader hands on.
RECURSIVE FirstLine(_)
FirstLine(w) ==
  IF w = <<>> \/ Head(w) = "newline" THEN <<>>
  ELSE <<Head(w)>> \o FirstLine(Tail(w))

\* The command a line holds, or ProtocolError.
DecodeLine(line) ==
  IF line = <<>> \/ Head(line) # "{" THEN ProtocolError
  ELSE LET id == ReadString(Tail(line))
       IN  IF ~id.ok \/ id.value = <<>> \/ Len(id.rest) < 3 \/ id.rest[1] # ","
                \/ id.rest[2] \notin CommandNames \/ id.rest[3] # ","
             THEN ProtocolError
           ELSE LET path == ReadString(SubSeq(id.rest, 4, Len(id.rest)))
                IN  IF ~path.ok \/ Len(path.rest) # 3 \/ path.rest[1] # ","
                         \/ path.rest[2] \notin Modes \/ path.rest[3] # "}"
                      THEN ProtocolError
                    ELSE Command(id.value, id.rest[2], path.value, path.rest[2])

\* What the reader makes of the bytes on the wire.
Decode(w) == DecodeLine(FirstLine(w))

\* ------------------------------------------------------------------- Init

InitHistoryLens == {0, 5}

\* App right after mount; py: whether an engine process is already running.
InitAppState(py) ==
  /\ executionActive = FALSE
  /\ selectedProcess = 0
  /\ processes = {}
  /\ logs = <<>>
  /\ logIdRef = 0
  /\ appListener = "pending"
  /\ statusCheck = "sent"
  /\ loadStage = [at |-> "none", all |-> 0, main |-> 0]
  /\ loadPy = "stopped"
  /\ execCmd = "none"
  /\ execProc = 0
  /\ stopExec = "none"
  /\ pyProc = py
  /\ engExecuting = FALSE
  /\ engProcs = (IF py = "running" THEN 1 ELSE 0)
  /\ pyStarts = <<>>
  /\ imageLogs = <<>>
  /\ actionLogs = <<>>
  /\ engSeq = 0
  /\ appEvents = <<>>

\* RecordingControl right after mount, with the history localStorage holds.
InitRecState(n) ==
  /\ recordingStatus = RecStatus(FALSE, 0, NoStats)
  /\ pollingInterval = 0
  /\ recordingStartTime = 0
  /\ history = StoredHistory(n)
  /\ autoImport = FALSE
  /\ isImporting = FALSE
  /\ timers = {}
  /\ nextTimer = 1
  /\ cur = [closure |-> Closure(0, NoStats, FALSE), reg |-> "pending"]
  /\ zombies = <<>>
  /\ lastLog = NoLog
  /\ startCmd = "none" /\ stopCmd = "none"
  /\ startDir = 0 /\ stopDir = 0 /\ stopStart = 0
  /\ polls = <<>>
  /\ imports = <<>>
  /\ engRecording = FALSE
  /\ engRun = 0
  /\ events = <<>>

\* StatusIndicator right after mount.
InitIndicatorState ==
  /\ error = NoError
  /\ showError = FALSE
  /\ connectionStatus = "disconnected"
  /\ errorListener = "pending"
  /\ hideTimers = <<>>

InitShared ==
  /\ InitIndicatorState
  /\ codec = IdleCodec
  /\ stopPy = "none"
  /\ pythonStatus = "stopped"
  /\ configLoaded = FALSE
  /\ now = 1000
  /\ note = ""

InitRec ==
  /\ InitShared
  /\ InitAppState("stopped")
  /\ \E n \in InitHistoryLens : InitRecState(n)

engineVars == <<engRecording, engRun, events>>
callVars   == <<startCmd, stopCmd, startDir, stopDir, stopStart, polls, imports>>
propVars   == <<pythonStatus, configLoaded>>

\* ------------------------------------------------------- clock and parent

Tick ==
  /\ now + 1500 <= ClockEnd
  /\ now' = now + 1500
  /\ UNCHANGED <<propVars, recordingStatus, pollingInterval, recordingStartTime,
                 history, autoImport, isImporting, timers, nextTimer, cur, zombies,
                 lastLog, callVars, engineVars>>
  /\ note' = ""
  /\ UNCHANGED appVars

\* App: setPythonStatus("running") (start result, ready event, status check).
\* App never sets it back to "stopped".
ParentPythonRunning ==
  /\ pythonStatus = "stopped"
  /\ pythonStatus' = "running"
  /\ CommitSame(TRUE)
  /\ UNCHANGED <<configLoaded, history, isImporting, now, lastLog, callVars,
                 engineVars>>
  /\ note' = ""
  /\ UNCHANGED appVars

\* App: setConfigLoaded(true), reached only with the executor running.
ParentConfigLoaded ==
  /\ pythonStatus = "running" /\ ~configLoaded
  /\ configLoaded' = TRUE
  /\ CommitSame(TRUE)
  /\ UNCHANGED <<pythonStatus, history, isImporting, now, lastLog, callVars,
                 engineVars>>
  /\ note' = ""
  /\ UNCHANGED appVars

\* App renders for a reason of its own (a log entry, a panel toggle): the
\* onLog prop is a new function.
AppRender ==
  /\ CommitSame(TRUE)
  /\ UNCHANGED <<propVars, history, isImporting, now, lastLog, callVars,
                 engineVars>>
  /\ note' = ""
  /\ UNCHANGED appVars

\* The settings checkbox.
ToggleAutoImport ==
  /\ Commit(recordingStatus, FALSE, recordingStartTime, ~autoImport, FALSE)
  /\ UNCHANGED <<propVars, history, isImporting, now, lastLog, callVars,
                 engineVars>>
  /\ note' = ""
  /\ UNCHANGED appVars

\* listen() of the current effect instance resolves: unlisten = unlistenFn.
ListenResolved ==
  /\ ~Registered(cur)
  /\ cur' = [cur EXCEPT !.reg = "registered"]
  /\ UNCHANGED <<propVars, recordingStatus, pollingInterval, recordingStartTime,
                 history, autoImport, isImporting, now, timers, nextTimer, zombies,
                 lastLog, callVars, engineVars>>
  /\ note' = ""
  /\ UNCHANGED appVars

\* listen() of a cleaned-up effect instance resolves: the listener is
\* registered and nothing will ever call its unlisten.
ZombieListenResolved(i) ==
  /\ ~Registered(zombies[i])
  /\ zombies' = [zombies EXCEPT ![i].reg = "registered"]
  /\ UNCHANGED <<propVars, recordingStatus, pollingInterval, recordingStartTime,
                 history, autoImport, isImporting, now, timers, nextTimer, cur,
                 lastLog, callVars, engineVars>>
  /\ note' = ""
  /\ UNCHANGED appVars

\* --------------------------------------------------- start / stop commands

\* The Start Recording button is rendered while not recording and is
\* disabled unless canRecord: a click on it runs no handler.
ClickStartDisabled ==
  /\ ~recordingStatus.isRecording
  /\ ~canRecord
  /\ note' = "start_refused"
  /\ UNCHANGED appVars
  /\ UNCHANGED <<propVars, recordingStatus, pollingInterval, recordingStartTime,
                 history, autoImport, isImporting, now, timers, nextTimer, cur,
                 zombies, lastLog, callVars, engineVars>>

\* handleStartRecording up to its await.
HandleStartRecording ==
  /\ ~recordingStatus.isRecording
  /\ canRecord
  /\ startCmd = "none"
  /\ startCmd' = "sent"
  /\ LogAndCommit(<<LogCandidate("info", Msg("Starting recording", 0, 0, 0, 0))>>,
                  recordingStatus, FALSE, recordingStartTime, autoImport)
  /\ UNCHANGED <<propVars, history, isImporting, now, stopCmd, startDir, stopDir,
                 stopStart, polls, imports, engineVars>>
  /\ note' = ""
  /\ UNCHANGED appVars

\* handleStartRecording after its await.
StartRecordingResult ==
  /\ startCmd \in {"ok", "fail", "throw"}
  /\ startCmd' = "none"
  /\ startDir' = 0
  /\ IF startCmd = "ok"
       THEN LogAndCommit(<<LogCandidate("success", Msg("Recording started", startDir, 0, 0, 0))>>,
                         RecStatus(TRUE, startDir, NoStats), TRUE, now, autoImport)
       ELSE LogAndCommit(<<LogCandidate("error", Msg("Failed to start recording", 0, 0, 0, 0))>>,
                         recordingStatus, FALSE, recordingStartTime, autoImport)
  /\ UNCHANGED <<propVars, history, isImporting, now, stopCmd, stopDir,
                 stopStart, polls, imports, engineVars>>
  /\ note' = (IF startCmd = "ok" THEN "" ELSE "start_failed")
  /\ UNCHANGED appVars

\* handleStopRecording up to its await.  The button is rendered while recording.
HandleStopRecording ==
  /\ recordingStatus.isRecording
  /\ stopCmd = "none"
  /\ stopCmd' = "sent"
  /\ stopStart' = recordingStartTime
  /\ LogAndCommit(<<LogCandidate("info", Msg("Stopping recording...", 0, 0, 0, 0))>>,
                  recordingStatus, FALSE, recordingStartTime, autoImport)
  /\ UNCHANGED <<propVars, history, isImporting, now, startCmd, startDir, stopDir,
                 polls, imports, engineVars>>
  /\ note' = ""
  /\ UNCHANGED appVars

\* Faulty variant of StopRecordingResult: a failed stop also ends the session.
StopRecordingResult_FailStops ==
  /\ stopCmd \in {"ok", "fail", "throw"}
  /\ stopCmd' = "none"
  /\ stopDir' = 0
  /\ stopStart' = 0
  /\ IF stopCmd = "ok"
       THEN LogAndCommit(<<LogCandidate("success",
                             Msg("Recording stopped (Duration)", stopDir,
                                 Duration(stopStart, now), 0, 0))>>,
                         RecStatus(FALSE, stopDir, NoStats), TRUE,
                         recordingStartTime, autoImport)
       ELSE LogAndCommit(<<LogCandidate("error", Msg("Failed to stop recording", 0, 0, 0, 0))>>,
                         RecStatus(FALSE, recordingStatus.snapshotDirectory, NoStats),
                         TRUE, recordingStartTime, autoImport)
  /\ UNCHANGED <<propVars, history, isImporting, now, startCmd, startDir,
                 polls, imports, engineVars>>
  /\ note' = (IF stopCmd = "ok" THEN "" ELSE "stop_failed")
  /\ UNCHANGED appVars

\* handleStopRecording after its await.
StopRecordingResult ==
  /\ stopCmd \in {"ok", "fail", "throw"}
  /\ stopCmd' = "none"
  /\ stopDir' = 0
  /\ stopStart' = 0
  /\ IF stopCmd = "ok"
       THEN LogAndCommit(<<LogCandidate("success",
                             Msg("Recording stopped (Duration)", stopDir,
                                 Duration(stopStart, now), 0, 0))>>,
                         RecStatus(FALSE, stopDir, NoStats), TRUE,
                         recordingStartTime, autoImport)
       ELSE LogAndCommit(<<LogCandidate("error", Msg("Failed to stop recording", 0, 0, 0, 0))>>,
                         recordingStatus, FALSE, recordingStartTime, autoImport)
  /\ UNCHANGED <<propVars, history, isImporting, now, startCmd, startDir,
                 polls, imports, engineVars>>
  /\ note' = (IF stopCmd = "ok" THEN "" ELSE "stop_failed")
  /\ UNCHANGED appVars

\* ----------------------------------------------------------- status polling

RemoveAt(q, i) == SubSeq(q, 1, i - 1) \o SubSeq(q, i + 1, Len(q))

\* A status query in flight: not yet answered, or answered by the engine with
\* its is_recording, snapshot_directory and statistics at that moment.
SentPoll == [state |-> "sent", is_recording |-> FALSE, dir |-> 0, statistics |-> NoStats]

\* The result the awaiting callback receives: "ok" (success with data),
\* "fail" (unsuccessful, or no data) or "throw".
PollResult(how, q, stats) ==
  [state |-> how, is_recording |-> q.is_recording, dir |-> q.dir, statistics |-> stats]

\* The interval callback up to its await: invoke("get_recording_status").
PollTick(t) ==
  /\ t \in timers
  /\ Len(polls) < MaxPolls
  /\ polls' = Append(polls, SentPoll)
  /\ UNCHANGED <<propVars, recordingStatus, pollingInterval, recordingStartTime,
                 history, autoImport, isImporting, now, timers, nextTimer, cur,
                 zombies, lastLog, startCmd, stopCmd, startDir, stopDir, stopStart,
                 imports, engineVars>>
  /\ note' = ""
  /\ UNCHANGED appVars

\* Faulty variant of ApplyPoll: takes directory and statistics from the
\* result but keeps isRecording.
ApplyPoll_KeepRecording(r) ==
  IF r.state = "ok"
    THEN Commit(RecStatus(recordingStatus.isRecording, r.dir, r.statistics), TRUE,
                recordingStartTime, autoImport, FALSE)
    ELSE CommitSame(FALSE)

\* Faulty variant of ApplyPoll: applies the result without checking
\* result.success and result.data.
ApplyPoll_Unchecked(r) ==
  Commit(RecStatus(r.is_recording, r.dir, r.statistics), TRUE,
         recordingStartTime, autoImport, FALSE)

\* Faulty variant of ApplyPoll: keeps the local statistics.
ApplyPoll_KeepStatistics(r) ==
  IF r.state = "ok"
    THEN Commit(RecStatus(r.is_recording, r.dir, recordingStatus.statistics), TRUE,
                recordingStartTime, autoImport, FALSE)
    ELSE CommitSame(FALSE)

\* What the interval callback does with the result of its await.
ApplyPoll(r) ==
  IF r.state = "ok"
    THEN Commit(RecStatus(r.is_recording, r.dir, r.statistics), TRUE,
                recordingStartTime, autoImport, FALSE)
    ELSE CommitSame(FALSE)

\* The interval callback after its await: the engine's answer arrives as a
\* successful result carrying the engine's statistics ("ok"), or the query
\* comes back unsuccessful or empty ("fail"), or the call throws ("throw").
PollResponse(i, how, stats) ==
  /\ i \in 1..Len(polls)
  /\ how = "ok" <=> polls[i].state = "answered"
  /\ stats = polls[i].statistics
  /\ polls' = RemoveAt(polls, i)
  /\ ApplyPoll(PollResult(how, polls[i], stats))
  /\ UNCHANGED <<propVars, history, isImporting, now, lastLog, startCmd, stopCmd,
                 startDir, stopDir, stopStart, imports, engineVars>>
  /\ note' = (IF how # "ok" THEN "poll_failed"
              ELSE IF recordingStatus.isRecording /\ ~polls[i].is_recording
                THEN "poll_stopped"
              ELSE "")
  /\ UNCHANGED appVars

\* ------------------------------------------------------------ import request

\* handleImportSnapshot up to its await, for a sequence of directories:
\* setIsImporting(true), onLog, fetch.
ImportLogs(dirs) ==
  [i \in 1..Len(dirs) |-> LogCandidate("info", Msg("Importing snapshot", dirs[i], 0, 0, 0))]

\* Faulty variant of ImportResult: a failed import also resets the session.
ImportResult_Escalates(i, outcome) ==
  /\ i \in 1..Len(imports)
  /\ imports' = RemoveAt(imports, i)
  /\ isImporting' = FALSE
  /\ IF outcome = "ok"
       THEN LogAndCommit(<<LogCandidate("success", Msg("Snapshot imported", imports[i], 0, 0, 0))>>,
                         recordingStatus, FALSE, recordingStartTime, autoImport)
       ELSE LogAndCommit(<<LogCandidate("error", Msg("Failed to import snapshot", 0, 0, 0, 0))>>,
                         RecStatus(FALSE, 0, NoStats), TRUE, recordingStartTime, autoImport)
  /\ UNCHANGED <<propVars, history, now, startCmd, stopCmd, startDir, stopDir,
                 stopStart, polls, engineVars>>
  /\ note' = (IF outcome = "ok" THEN "" ELSE "import_failed")
  /\ UNCHANGED appVars

\* handleImportSnapshot after its await: ok, notok (response not OK) or throw.
ImportResult(i, outcome) ==
  /\ i \in 1..Len(imports)
  /\ imports' = RemoveAt(imports, i)
  /\ isImporting' = FALSE
  /\ LogAndCommit(<<IF outcome = "ok"
                      THEN LogCandidate("success", Msg("Snapshot imported", imports[i], 0, 0, 0))
                      ELSE LogCandidate("error", Msg("Failed to import snapshot", 0, 0, 0, 0))>>,
                  recordingStatus, FALSE, recordingStartTime, autoImport)
  /\ UNCHANGED <<propVars, history, now, startCmd, stopCmd, startDir, stopDir,
                 stopStart, polls, engineVars>>
  /\ note' = (IF outcome = "ok" THEN "" ELSE "import_failed")
  /\ UNCHANGED appVars

\* ------------------------------------------------------------ event delivery

\* The executor-event listeners of RecordingControl that are registered, in
\* registration order.
Recipients ==
  SelectSeq(zombies, Registered) \o (IF Registered(cur) THEN <<cur>> ELSE <<>>)

RECURSIVE StoppedHistory(_, _, _)
StoppedHistory(h, rcpts, e) ==
  IF rcpts = <<>> THEN h
  ELSE StoppedHistory(AddHistoryEntry(h, NewEntry(e, Head(rcpts).closure, now)),
                      Tail(rcpts), e)

AutoImporting(l) == l.closure.autoImport

\* onLog calls of one listener handling recording_stopped.
StoppedLogsOf(l, e) ==
  LET entry == NewEntry(e, l.closure, now)
  IN  <<LogCandidate("success", Msg("Recording stopped", e.dir, entry.duration,
                                    entry.actionCount, entry.screenshotCount))>>
      \o (IF AutoImporting(l) THEN ImportLogs(<<e.dir>>) ELSE <<>>)

RECURSIVE StoppedLogs(_, _)
StoppedLogs(rcpts, e) ==
  IF rcpts = <<>> THEN <<>>
  ELSE StoppedLogsOf(Head(rcpts), e) \o StoppedLogs(Tail(rcpts), e)

\* The recording_started branch, run by every registered listener.
OnRecordingStarted(e, rcpts) ==
  /\ LogAndCommit([i \in 1..Len(rcpts) |->
                     LogCandidate("success", Msg("Recording started", e.dir, 0, 0, 0))],
                  RecStatus(TRUE, e.dir, NoStats), TRUE, now, autoImport)
  /\ UNCHANGED <<history, isImporting, imports>>

\* The recording_stopped branch, run by every registered listener.
OnRecordingStopped(e, rcpts) ==
  LET importers == SelectSeq(rcpts, AutoImporting)
  IN  /\ Len(imports) + Len(importers) <= MaxImports
      /\ history' = StoppedHistory(history, rcpts, e)
      /\ imports' = imports \o [i \in 1..Len(importers) |-> e.dir]
      /\ isImporting' = IF importers # <<>> THEN TRUE ELSE isImporting
      /\ LogAndCommit(StoppedLogs(rcpts, e),
                      RecStatus(FALSE, e.dir, NoStats), TRUE, 0, autoImport)

\* An error event: no branch of RecordingControl's handler matches it; App's
\* handler passes it to addLog.
OnError(e) ==
  /\ LogAndCommit(<<LogCandidate("error", Msg("engine error", 0, 0, 0, 0))>>,
                  recordingStatus, FALSE, recordingStartTime, autoImport)
  /\ UNCHANGED <<history, isImporting, imports>>

\* The event channel hands its oldest event to the registered listeners.
DeliverEvent ==
  /\ events # <<>>
  /\ events' = Tail(events)
  /\ LET e == Head(events)
         rcpts == Recipients
     IN  IF e.event = "error" THEN OnError(e)
         ELSE IF rcpts = <<>>
           THEN UNCHANGED <<recordingStatus, pollingInterval, recordingStartTime,
                            history, autoImport, isImporting, timers, nextTimer,
                            cur, zombies, lastLog, imports>>
         ELSE IF e.event = "recording_started" THEN OnRecordingStarted(e, rcpts)
         ELSE OnRecordingStopped(e, rcpts)
  /\ UNCHANGED <<propVars, now, startCmd, stopCmd, startDir, stopDir, stopStart,
                 polls, engRecording, engRun>>
  /\ note' = ""
  /\ UNCHANGED appVars

\* ------------------------------------------------------------------- engine

Event(name, run) == [event |-> name, dir |-> DirOf(run), run_id |-> run]

\* The engine accepts start_recording: a new run in a new directory.
EngineStartOk ==
  /\ pyProc # "crashed"
  /\ startCmd = "sent"
  /\ ~engRecording
  /\ engRun < MaxRuns
  /\ Len(events) < MaxQueue
  /\ engRecording' = TRUE
  /\ engRun' = engRun + 1
  /\ events' = Append(events, Event("recording_started", engRun + 1))
  /\ startCmd' = "ok"
  /\ startDir' = DirOf(engRun + 1)
  /\ UNCHANGED <<propVars, recordingStatus, pollingInterval, recordingStartTime,
                 history, autoImport, isImporting, now, timers, nextTimer, cur,
                 zombies, lastLog, stopCmd, stopDir, stopStart, polls, imports>>
  /\ note' = ""
  /\ UNCHANGED appVars

\* start_recording is answered unsuccessfully, or the call throws.
EngineStartFail(how) ==
  /\ startCmd = "sent"
  /\ startCmd' = how
  /\ UNCHANGED <<propVars, recordingStatus, pollingInterval, recordingStartTime,
                 history, autoImport, isImporting, now, timers, nextTimer, cur,
                 zombies, lastLog, stopCmd, startDir, stopDir, stopStart, polls,
                 imports, engineVars>>
  /\ note' = ""
  /\ UNCHANGED appVars

\* The engine accepts stop_recording.
EngineStopOk ==
  /\ pyProc # "crashed"
  /\ stopCmd = "sent"
  /\ engRecording
  /\ Len(events) < MaxQueue
  /\ engRecording' = FALSE
  /\ events' = Append(events, Event("recording_stopped", engRun))
  /\ stopCmd' = "ok"
  /\ stopDir' = DirOf(engRun)
  /\ UNCHANGED <<propVars, recordingStatus, pollingInterval, recordingStartTime,
                 history, autoImport, isImporting, now, timers, nextTimer, cur,
                 zombies, lastLog, startCmd, startDir, stopStart, polls, imports,
                 engRun>>
  /\ note' = ""
  /\ UNCHANGED appVars

EngineStopFail(how) ==
  /\ stopCmd = "sent"
  /\ stopCmd' = how
  /\ UNCHANGED <<propVars, recordingStatus, pollingInterval, recordingStartTime,
                 history, autoImport, isImporting, now, timers, nextTimer, cur,
                 zombies, lastLog, startCmd, startDir, stopDir, stopStart, polls,
                 imports, engineVars>>
  /\ note' = ""
  /\ UNCHANGED appVars

\* The engine ends the recording on its own and reports it.
EngineStopsItself ==
  /\ pyProc # "crashed"
  /\ engRecording
  /\ Len(events) < MaxQueue
  /\ engRecording' = FALSE
  /\ events' = Append(events, Event("recording_stopped", engRun))
  /\ UNCHANGED <<propVars, recordingStatus, pollingInterval, recordingStartTime,
                 history, autoImport, isImporting, now, timers, nextTimer, cur,
                 zombies, lastLog, callVars, engRun>>
  /\ note' = ""
  /\ UNCHANGED appVars

\* The engine answers a status query from its state at that moment.
EngineAnswerPoll(i) ==
  /\ pyProc # "crashed"
  /\ i \in 1..Len(polls)
  /\ polls[i].state = "sent"
  /\ \E stats \in StatsSet :
       polls' = [polls EXCEPT ![i] = [state |-> "answered", is_recording |-> engRecording,
                                      dir |-> DirOf(engRun), statistics |-> stats]]
  /\ UNCHANGED <<propVars, recordingStatus, pollingInterval, recordingStartTime,
                 history, autoImport, isImporting, now, timers, nextTimer, cur,
                 zombies, lastLog, startCmd, stopCmd, startDir, stopDir, stopStart,
                 imports, engineVars>>
  /\ note' = ""
  /\ UNCHANGED appVars

\* ------------------------------------------------------------ specification

NextRec ==
  \/ Tick
  \/ ParentPythonRunning
  \/ ParentConfigLoaded
  \/ AppRender
  \/ ListenResolved
  \/ \E i \in 1..Len(zombies) : ZombieListenResolved(i)
  \/ ClickStartDisabled
  \/ HandleStartRecording
  \/ StartRecordingResult
  \/ HandleStopRecording
  \/ StopRecordingResult
  \/ \E t \in timers : PollTick(t)
  \/ \E i \in 1..Len(polls), how \in {"ok", "fail", "throw"}, stats \in StatsSet :
        PollResponse(i, how, stats)
  \/ DeliverEvent
  \/ EngineStartOk
  \/ \E how \in {"fail", "throw"} : EngineStartFail(how)
  \/ EngineStopOk
  \/ \E how \in {"fail", "throw"} : EngineStopFail(how)
  \/ EngineStopsItself
  \/ \E i \in 1..Len(polls) : EngineAnswerPoll(i)

SpecRec == InitRec /\ [][NextRec]_vars

\* ---------------------------------------------------------------- auto-import
\* RecordingControl with the auto-import setting in use: the user may tick
\* and untick it, and import requests are answered.

ImportOutcomes == {"ok", "notok", "throw"}

NextImport ==
  \/ ParentPythonRunning
  \/ ParentConfigLoaded
  \/ ToggleAutoImport
  \/ ListenResolved
  \/ \E i \in 1..Len(zombies) : ZombieListenResolved(i)
  \/ HandleStartRecording
  \/ StartRecordingResult
  \/ HandleStopRecording
  \/ StopRecordingResult
  \/ \E t \in timers : PollTick(t)
  \/ \E i \in 1..Len(polls), how \in {"ok", "fail", "throw"}, stats \in StatsSet :
        PollResponse(i, how, stats)
  \/ \E i \in 1..Len(imports), outcome \in ImportOutcomes : ImportResult(i, outcome)
  \/ DeliverEvent
  \/ EngineStartOk
  \/ EngineStopOk
  \/ EngineStopsItself
  \/ \E i \in 1..Len(polls) : EngineAnswerPoll(i)

SpecImport == InitRec /\ [][NextImport]_vars

\* ------------------------------------------------------------- engine crash

\* The engine process exits unexpectedly in the middle of a recording: the
\* recording is gone, the engine answers nothing any more, and the backend
\* reports an error event.
EngineCrash ==
  /\ engRecording
  /\ pyProc # "crashed"
  /\ Len(events) < MaxQueue
  /\ pyProc' = "crashed"
  /\ engRecording' = FALSE
  /\ events' = Append(events, Event("error", engRun))
  /\ note' = ""
  /\ UNCHANGED <<propVars, now, recordingStatus, pollingInterval, recordingStartTime,
                 history, autoImport, isImporting, timers, nextTimer, cur, zombies,
                 lastLog, callVars, engRun>>
  /\ UNCHANGED <<executionActive, selectedProcess, processes, logs, logIdRef,
                 appListener, statusCheck, loadStage, loadPy, execCmd, execProc,
                 stopExec, engExecuting, engProcs, pyStarts, imageLogs, actionLogs,
                 engSeq, appEvents, codec, stopPy, indVars>>

\* The recording session from start to stop, and the crash.
NextCrash ==
  \/ Tick
  \/ ParentPythonRunning
  \/ ParentConfigLoaded
  \/ ListenResolved
  \/ HandleStartRecording
  \/ StartRecordingResult
  \/ HandleStopRecording
  \/ StopRecordingResult
  \/ \E t \in timers : PollTick(t)
  \/ \E i \in 1..Len(polls), how \in {"ok", "fail", "throw"}, stats \in StatsSet :
        PollResponse(i, how, stats)
  \/ DeliverEvent
  \/ EngineStartOk
  \/ EngineStopOk
  \/ \E how \in {"fail", "throw"} : EngineStopFail(how)
  \/ \E i \in 1..Len(polls) : EngineAnswerPoll(i)
  \/ EngineCrash

SpecCrash == InitRec /\ [][NextCrash]_vars

\* ====================================================================== App
\* App (part_001) with RecordingControl at rest.

SimpleMsg(text) == Msg(text, 0, 0, 0, 0)

\* addLog(level, msg) for each candidate in order.
Log(cands) ==
  LET r == AddLogAll(logs, logIdRef, cands)
  IN  /\ Len(r.logs) <= MaxLogs
      /\ r.id <= MaxLogId
      /\ logs' = r.logs
      /\ logIdRef' = r.id

appCalls  == <<loadStage, loadPy, execCmd, execProc, stopExec>>
appEngine == <<pyProc, engExecuting, appEvents>>
appUi     == <<executionActive, selectedProcess, processes>>
appStart  == <<appListener, statusCheck, engProcs, pyStarts>>
appMount  == <<appStart, imageLogs, actionLogs, engSeq>>

InitApp ==
  /\ InitShared
  /\ \E py \in {"stopped", "running"} : InitAppState(py)
  /\ InitRecState(0)

\* checkPythonStatus after its await: the backend reports whether an engine
\* process runs, or the call throws.
CheckPythonStatusResult(how) ==
  /\ statusCheck = "sent"
  /\ statusCheck' = "done"
  /\ IF how = "ok" /\ pyProc = "running"
       THEN /\ pythonStatus' = "running"
            /\ Log(<<LogCandidate("info", SimpleMsg("already_running"))>>)
       ELSE UNCHANGED <<pythonStatus, logs, logIdRef>>
  /\ note' = ""
  /\ UNCHANGED <<configLoaded, now, recVars, appCalls, appEngine, appUi, appListener,
                 engProcs, pyStarts, imageLogs, actionLogs, engSeq>>

\* setupListeners after its awaits: listen() resolved.
AppListenResolved ==
  /\ appListener = "pending"
  /\ appListener' = "registered"
  /\ note' = ""
  /\ UNCHANGED <<propVars, now, recVars, appCalls, appEngine, appUi, logs,
                 logIdRef, statusCheck, engProcs, pyStarts, imageLogs, actionLogs,
                 engSeq>>

\* An executor event; sequence 0 where the sequence numbers are not followed.
AppEvent(name, level, text) ==
  [event |-> name, level |-> level, message |-> SimpleMsg(text), sequence |-> 0]

\* What the executor-event handler passes to addLog for event e.
\* Faulty variant of EventLogs: an error event is logged as information.
EventLogs_ErrorAsInfo(e) ==
  IF e.event \in {"ready", "config_loaded", "execution_started", "execution_completed",
                  "error"}
    THEN <<LogCandidate("info", e.message)>>
  ELSE IF e.event = "log" THEN <<LogCandidate(e.level, e.message)>>
  ELSE <<>>

EventLogs(e) ==
  IF e.event \in {"ready", "config_loaded", "execution_started", "execution_completed"}
    THEN <<LogCandidate("info", e.message)>>
  ELSE IF e.event = "error" THEN <<LogCandidate("error", e.message)>>
  ELSE IF e.event = "log" THEN <<LogCandidate(e.level, e.message)>>
  ELSE <<>>

\* Variant of SinkAdd that puts the entry in front.
SinkAdd_Front(prev, entry) == <<entry>> \o prev

\* [...prev, entry]
SinkAdd(prev, entry) == Append(prev, entry)

\* The entry an image_recognition or action_execution event leaves in its
\* sink; its id comes from logIdRef, its content from the payload.
DiagEntry(e, id) ==
  [id |-> id, timestamp |-> TimeStamp(now), payload |-> e.message]

\* Faulty variant of Diagnose: the entry goes to both diagnostic sinks.
Diagnose_Both(e) ==
  /\ logIdRef < MaxLogId
  /\ logIdRef' = logIdRef + 1
  /\ Len(imageLogs) < MaxLogs /\ Len(actionLogs) < MaxLogs
  /\ imageLogs' = SinkAdd(imageLogs, DiagEntry(e, logIdRef + 1))
  /\ actionLogs' = SinkAdd(actionLogs, DiagEntry(e, logIdRef + 1))

\* The image_recognition and action_execution branches of the handler.
Diagnose(e) ==
  /\ logIdRef < MaxLogId
  /\ logIdRef' = logIdRef + 1
  /\ IF e.event = "image_recognition"
       THEN /\ Len(imageLogs) < MaxLogs
            /\ imageLogs' = SinkAdd(imageLogs, DiagEntry(e, logIdRef + 1))
            /\ UNCHANGED actionLogs
       ELSE /\ Len(actionLogs) < MaxLogs
            /\ actionLogs' = SinkAdd(actionLogs, DiagEntry(e, logIdRef + 1))
            /\ UNCHANGED imageLogs

\* The backend delivers the oldest emitted event; without a registered
\* listener it is lost.
DeliverAppEvent ==
  /\ appEvents # <<>>
  /\ appEvents' = Tail(appEvents)
  /\ LET e == Head(appEvents)
     IN  IF appListener # "registered"
           THEN /\ UNCHANGED <<pythonStatus, logs, logIdRef, imageLogs, actionLogs>>
                /\ note' = ""
         ELSE IF e.event \in {"image_recognition", "action_execution"}
           THEN /\ Diagnose(e)
                /\ UNCHANGED <<pythonStatus, logs>>
                /\ note' = ""
         ELSE /\ pythonStatus' = (IF e.event = "ready" THEN "running" ELSE pythonStatus)
              /\ Log(EventLogs(e))
              /\ note' = (IF logs' = logs THEN "log_dropped" ELSE "")
              /\ UNCHANGED <<imageLogs, actionLogs>>
  /\ UNCHANGED <<configLoaded, now, recVars, appCalls, pyProc, engExecuting, appUi,
                 appStart, engSeq>>

LogLevels == {"info", "error"}
LogTexts  == {"m1"}

\* The engine writes a log or error line; the backend emits it as an event.
EngineEmits(name, level, text) ==
  /\ pyProc = "running"
  /\ Len(appEvents) < MaxQueue
  /\ name = "error" => level = "error"
  /\ appEvents' = Append(appEvents, AppEvent(name, level, text))
  /\ note' = ""
  /\ UNCHANGED <<propVars, now, recVars, appCalls, pyProc, engExecuting, appUi,
                 appMount, logs, logIdRef>>

\* clearLogs on the tab shown, clearAllLogs.
ClearLogs(tab) ==
  /\ logs # <<>> \/ imageLogs # <<>> \/ actionLogs # <<>>
  /\ logs' = (IF tab = "general" THEN <<>> ELSE logs)
  /\ imageLogs' = (IF tab = "image" THEN <<>> ELSE imageLogs)
  /\ actionLogs' = (IF tab = "actions" THEN <<>> ELSE actionLogs)
  /\ note' = ""
  /\ UNCHANGED <<propVars, now, recVars, appCalls, appEngine, appUi, appStart, engSeq,
                 logIdRef>>

ClearAllLogs ==
  /\ logs # <<>> \/ imageLogs # <<>> \/ actionLogs # <<>>
  /\ logs' = <<>>
  /\ imageLogs' = <<>>
  /\ actionLogs' = <<>>
  /\ note' = ""
  /\ UNCHANGED <<propVars, now, recVars, appCalls, appEngine, appUi, appStart, engSeq,
                 logIdRef>>

\* ------------------------------------------------------- load configuration

Stage(at) == [at |-> at, all |-> 0, main |-> 0]

\* handleLoadConfiguration up to its first await: the file dialog opens.
HandleLoadConfiguration ==
  /\ loadStage = Stage("none")
  /\ loadStage' = Stage("dialog")
  /\ loadPy' = pythonStatus
  /\ note' = ""
  /\ UNCHANGED <<propVars, now, recVars, execCmd, execProc, stopExec, appEngine,
                 appUi, appMount, logs, logIdRef>>

\* The dialog returns.  With a file selected: startPythonExecutor up to its
\* invoke when the handler saw the engine stopped, else load_configuration.
DialogResult(selected) ==
  /\ loadStage = Stage("dialog")
  /\ IF ~selected
       THEN loadStage' = Stage("none") /\ UNCHANGED <<logs, logIdRef>>
     ELSE IF loadPy # "running"
       THEN /\ Log(<<LogCandidate("info", SimpleMsg("starting_python"))>>)
            /\ loadStage' = Stage("startpy")
     ELSE loadStage' = Stage("loading") /\ UNCHANGED <<logs, logIdRef>>
  /\ note' = ""
  /\ UNCHANGED <<propVars, now, recVars, loadPy, execCmd, execProc, stopExec,
                 appEngine, appUi, appMount>>

\* The backend handles start_python_executor_with_type.
EngineSpawn(how) ==
  /\ loadStage = Stage("startpy")
  /\ how = "ok" => (pyProc = "stopped" /\ Len(appEvents) < MaxQueue)
  /\ loadStage' = Stage(how)
  /\ IF how = "ok"
       THEN /\ pyProc' = "running"
            /\ engProcs' = engProcs + 1
            /\ appEvents' = Append(appEvents, AppEvent("ready", "info", "ready"))
       ELSE UNCHANGED <<pyProc, engProcs, appEvents>>
  /\ note' = ""
  /\ UNCHANGED <<propVars, now, recVars, loadPy, execCmd, execProc, stopExec,
                 engExecuting, appUi, appListener, statusCheck, pyStarts, imageLogs,
                 actionLogs, engSeq, logs, logIdRef>>

\* Faulty variant of StartPythonResult: goes on to load after a failed start.
StartPythonResult_LoadsAnyway ==
  /\ loadStage.at \in {"ok", "fail", "throw"}
  /\ IF loadStage.at = "ok"
       THEN /\ pythonStatus' = "running"
            /\ Log(<<LogCandidate("success", SimpleMsg("python_started"))>>)
            /\ loadStage' = Stage("wait")
       ELSE /\ UNCHANGED pythonStatus
            /\ Log(<<LogCandidate("error", SimpleMsg(IF loadStage.at = "fail"
                                                      THEN "python_failed"
                                                      ELSE "python_threw")),
                     LogCandidate("error", SimpleMsg("cannot_load"))>>)
            /\ loadStage' = Stage("wait")
  /\ note' = (IF loadStage.at = "ok" THEN "" ELSE "start_python_failed")
  /\ UNCHANGED <<configLoaded, now, recVars, loadPy, execCmd, execProc, stopExec,
                 appEngine, appUi, appMount>>

\* startPythonExecutor after its await, and handleLoadConfiguration up to
\* its next await (the 1 s timeout) or its return.
StartPythonResult ==
  /\ loadStage.at \in {"ok", "fail", "throw"}
  /\ IF loadStage.at = "ok"
       THEN /\ pythonStatus' = "running"
            /\ Log(<<LogCandidate("success", SimpleMsg("python_started"))>>)
            /\ loadStage' = Stage("wait")
       ELSE /\ UNCHANGED pythonStatus
            /\ Log(<<LogCandidate("error", SimpleMsg(IF loadStage.at = "fail"
                                                      THEN "python_failed"
                                                      ELSE "python_threw")),
                     LogCandidate("error", SimpleMsg("cannot_load"))>>)
            /\ loadStage' = Stage("none")
  /\ note' = (IF loadStage.at = "ok" THEN "" ELSE "start_python_failed")
  /\ UNCHANGED <<configLoaded, now, recVars, loadPy, execCmd, execProc, stopExec,
                 appEngine, appUi, appMount>>

\* The 1 s timeout ran out: invoke("load_configuration").
WaitDone ==
  /\ loadStage = Stage("wait")
  /\ loadStage' = Stage("loading")
  /\ note' = ""
  /\ UNCHANGED <<propVars, now, recVars, loadPy, execCmd, execProc, stopExec,
                 appEngine, appUi, appMount, logs, logIdRef>>

\* The backend handles load_configuration: success with `all` processes of
\* which `main` are in the "main" category, an unsuccessful result, a throw.
EngineLoadConfiguration(how, all, main) ==
  /\ loadStage = Stage("loading")
  /\ main <= all
  /\ how # "loaded" => all = 0
  /\ loadStage' = [at |-> how, all |-> all, main |-> main]
  /\ note' = ""
  /\ UNCHANGED <<propVars, now, recVars, loadPy, execCmd, execProc, stopExec,
                 appEngine, appUi, appMount, logs, logIdRef>>

\* What handleLoadConfiguration logs after a successful load.
LoadedLogs(all, main) ==
  <<LogCandidate("success", SimpleMsg("configuration_loaded"))>>
  \o (IF all > 0
        THEN <<LogCandidate("debug", Msg("categories", 0, all, main, 0)),
               LogCandidate("info", Msg(IF main # all THEN "loaded_main" ELSE "loaded",
                                        0, main, all, 0))>>
             \o (IF main = 0 THEN <<LogCandidate("warning", SimpleMsg("no_main"))>>
                 ELSE <<>>)
        ELSE <<>>)

\* handleLoadConfiguration after invoke("load_configuration").
LoadConfigurationResult ==
  /\ loadStage.at \in {"loaded", "load_fail", "load_throw"}
  /\ loadStage' = Stage("none")
  /\ IF loadStage.at = "loaded"
       THEN /\ processes' = 1..loadStage.main
            /\ configLoaded' = TRUE
            /\ Log(LoadedLogs(loadStage.all, loadStage.main))
            /\ selectedProcess' = (IF loadStage.main > 0 THEN 1 ELSE 0)
     ELSE IF loadStage.at = "load_throw"
       THEN /\ Log(<<LogCandidate("error", SimpleMsg("load_threw"))>>)
            /\ UNCHANGED <<processes, configLoaded, selectedProcess>>
     ELSE UNCHANGED <<processes, configLoaded, selectedProcess, logs, logIdRef>>
  /\ note' = ""
  /\ UNCHANGED <<pythonStatus, now, recVars, loadPy, execCmd, execProc, stopExec,
                 appEngine, executionActive, appMount>>

\* A click on an entry of the process dropdown.
SelectProcess(p) ==
  /\ p \in processes
  /\ selectedProcess' = p
  /\ note' = ""
  /\ UNCHANGED <<propVars, now, recVars, appCalls, appEngine, executionActive,
                 processes, appMount, logs, logIdRef>>

\* ----------------------------------------------------------------- execution

\* Faulty variant of NoProcessSelected: never refuses.
NoProcessSelected_Never(sel) == FALSE

\* if (!selectedProcess)
NoProcessSelected(sel) == sel = 0

\* disabled={!configLoaded || !pythonStatus}: pythonStatus is "stopped" or
\* "running", never an empty string.
StartDisabled == ~configLoaded \/ pythonStatus = ""

\* A click on the disabled Start button runs no handler.
ClickStartExecutionDisabled ==
  /\ StartDisabled
  /\ note' = "exec_refused"
  /\ UNCHANGED <<propVars, now, recVars, appVars>>

\* handleStartExecution up to its first await: it returns when no process is
\* selected, else it minimizes the window (auto-minimize, a single monitor)
\* or goes on to invoke("start_execution").
HandleStartExecution(minimize) ==
  /\ ~StartDisabled
  /\ execCmd = "none"
  /\ IF NoProcessSelected(selectedProcess)
       THEN /\ Log(<<LogCandidate("warning", SimpleMsg("select_process"))>>)
            /\ UNCHANGED <<execCmd, execProc>>
            /\ note' = "exec_rejected"
       ELSE /\ execProc' = selectedProcess
            /\ execCmd' = (IF minimize THEN "minimizing" ELSE "sent")
            /\ UNCHANGED <<logs, logIdRef>>
            /\ note' = ""
  /\ UNCHANGED <<propVars, now, recVars, loadStage, loadPy, stopExec, appEngine,
                 appUi, appMount>>

\* window.minimize() and the 1 s timeout are over (or minimize threw):
\* invoke("start_execution", params).
MinimizeDone(ok) ==
  /\ execCmd = "minimizing"
  /\ execCmd' = "sent"
  /\ IF ok THEN Log(<<LogCandidate("info", SimpleMsg("window_minimized"))>>)
     ELSE UNCHANGED <<logs, logIdRef>>
  /\ note' = ""
  /\ UNCHANGED <<propVars, now, recVars, loadStage, loadPy, execProc, stopExec,
                 appEngine, appUi, appMount>>

\* The backend handles start_execution.
EngineStartExecution(how) ==
  /\ execCmd = "sent"
  /\ how = "ok" => (pyProc = "running" /\ Len(appEvents) < MaxQueue)
  /\ execCmd' = how
  /\ appEvents' = (IF how = "ok"
                     THEN Append(appEvents, AppEvent("execution_started", "info", "started"))
                     ELSE appEvents)
  /\ engExecuting' = (how = "ok" \/ engExecuting)
  /\ note' = ""
  /\ UNCHANGED <<propVars, now, recVars, loadStage, loadPy, execProc, stopExec,
                 pyProc, appUi, appMount, logs, logIdRef>>

\* handleStartExecution after invoke("start_execution").
StartExecutionResult ==
  /\ execCmd \in {"ok", "fail", "throw"}
  /\ execCmd' = "none"
  /\ execProc' = 0
  /\ executionActive' = (execCmd = "ok" \/ executionActive)
  /\ IF execCmd = "ok"
       THEN Log(<<LogCandidate("success", Msg("execution_started", 0, execProc, 0, 0))>>)
     ELSE IF execCmd = "throw"
       THEN Log(<<LogCandidate("error", SimpleMsg("start_execution_threw"))>>)
     ELSE UNCHANGED <<logs, logIdRef>>
  /\ note' = ""
  /\ UNCHANGED <<propVars, now, recVars, loadStage, loadPy, stopExec, appEngine,
                 selectedProcess, processes, appMount>>

\* handleStopExecution up to its await; the Stop button is disabled unless
\* executionActive.
HandleStopExecution ==
  /\ executionActive
  /\ stopExec = "none"
  /\ stopExec' = "sent"
  /\ note' = ""
  /\ UNCHANGED <<propVars, now, recVars, loadStage, loadPy, execCmd, execProc,
                 appEngine, appUi, appMount, logs, logIdRef>>

\* The backend handles stop_execution.
EngineStopExecution(how) ==
  /\ stopExec = "sent"
  /\ stopExec' = how
  /\ engExecuting' = (how # "ok" /\ engExecuting)
  /\ note' = ""
  /\ UNCHANGED <<propVars, now, recVars, loadStage, loadPy, execCmd, execProc,
                 pyProc, appEvents, appUi, appMount, logs, logIdRef>>

\* handleStopExecution after its await.
StopExecutionResult ==
  /\ stopExec \in {"ok", "fail", "throw"}
  /\ stopExec' = "none"
  /\ executionActive' = (stopExec # "ok" /\ executionActive)
  /\ IF stopExec = "ok"
       THEN Log(<<LogCandidate("info", SimpleMsg("execution_stopped"))>>)
     ELSE IF stopExec = "throw"
       THEN Log(<<LogCandidate("error", SimpleMsg("stop_execution_threw"))>>)
     ELSE UNCHANGED <<logs, logIdRef>>
  /\ note' = ""
  /\ UNCHANGED <<propVars, now, recVars, loadStage, loadPy, execCmd, execProc,
                 appEngine, selectedProcess, processes, appMount>>

Outcomes == {"ok", "fail", "throw"}

NextApp ==
  \/ Tick
  \/ \E how \in {"ok", "throw"} : CheckPythonStatusResult(how)
  \/ AppListenResolved
  \/ DeliverAppEvent
  \/ \E name \in {"log", "error"}, level \in LogLevels, text \in LogTexts :
       EngineEmits(name, level, text)
  \/ \E tab \in {"general", "image", "actions"} : ClearLogs(tab)
  \/ ClearAllLogs
  \/ HandleLoadConfiguration
  \/ \E selected \in BOOLEAN : DialogResult(selected)
  \/ \E how \in Outcomes : EngineSpawn(how)
  \/ StartPythonResult
  \/ WaitDone
  \/ \E how \in {"loaded", "load_fail", "load_throw"}, all \in 0..MaxProcs, main \in 0..MaxProcs :
       EngineLoadConfiguration(how, all, main)
  \/ LoadConfigurationResult
  \/ \E p \in 1..MaxProcs : SelectProcess(p)
  \/ ClickStartExecutionDisabled
  \/ \E minimize \in BOOLEAN : HandleStartExecution(minimize)
  \/ \E ok \in BOOLEAN : MinimizeDone(ok)
  \/ \E how \in Outcomes : EngineStartExecution(how)
  \/ StartExecutionResult
  \/ HandleStopExecution
  \/ \E how \in Outcomes : EngineStopExecution(how)
  \/ StopExecutionResult

SpecApp == InitApp /\ [][NextApp]_vars

\* ------------------------------------------------- execution life cycle

\* The engine finishes the process it is running and reports it.
EngineCompletesExecution ==
  /\ engExecuting
  /\ Len(appEvents) < MaxQueue
  /\ engExecuting' = FALSE
  /\ appEvents' = Append(appEvents, AppEvent("execution_completed", "info", "completed"))
  /\ note' = ""
  /\ UNCHANGED <<propVars, now, recVars, appCalls, pyProc, appUi, appMount, logs, logIdRef>>

\* App from mount to a started and stopped execution, with an engine that
\* may finish on its own.
NextExec ==
  \/ \E how \in {"ok", "throw"} : CheckPythonStatusResult(how)
  \/ AppListenResolved
  \/ DeliverAppEvent
  \/ HandleLoadConfiguration
  \/ \E selected \in BOOLEAN : DialogResult(selected)
  \/ \E how \in Outcomes : EngineSpawn(how)
  \/ StartPythonResult
  \/ WaitDone
  \/ \E how \in {"loaded", "load_fail", "load_throw"}, all \in 0..MaxProcs, main \in 0..MaxProcs :
       EngineLoadConfiguration(how, all, main)
  \/ LoadConfigurationResult
  \/ \E minimize \in BOOLEAN : HandleStartExecution(minimize)
  \/ \E ok \in BOOLEAN : MinimizeDone(ok)
  \/ \E how \in Outcomes : EngineStartExecution(how)
  \/ StartExecutionResult
  \/ HandleStopExecution
  \/ \E how \in Outcomes : EngineStopExecution(how)
  \/ StopExecutionResult
  \/ EngineCompletesExecution
  \/ ClearAllLogs

SpecExec == InitApp /\ [][NextExec]_vars

\* ------------------------------------------------- engine start (App.tsx)
\* The Start Python button of src/src/App.tsx and the backend's process
\* supervisor behind invoke("start_python_executor_with_type").

spawnFrame == <<configLoaded, now, recVars, appCalls, engExecuting, appUi,
                appListener, statusCheck, imageLogs, actionLogs, engSeq>>

\* handleStartPython up to its await; the button is disabled only while
\* pythonStatus is "running".
HandleStartPython ==
  /\ pythonStatus # "running"
  /\ Len(pyStarts) < MaxStarts
  /\ Log(<<LogCandidate("info", SimpleMsg("starting_python"))>>)
  /\ pyStarts' = Append(pyStarts, "sent")
  /\ note' = ""
  /\ UNCHANGED <<spawnFrame, pythonStatus, pyProc, engProcs, appEvents>>

\* Variant of BackendSpawn without the supervisor's check: spawns whenever
\* it is asked to.
BackendSpawn_Unchecked(i) ==
  /\ i \in 1..Len(pyStarts)
  /\ pyStarts[i] = "sent"
  /\ pyProc' = "starting"
  /\ engProcs' = engProcs + 1
  /\ pyStarts' = [pyStarts EXCEPT ![i] = "spawned"]
  /\ note' = ""
  /\ UNCHANGED <<spawnFrame, pythonStatus, logs, logIdRef, appEvents>>

\* The supervisor takes up a start request: it spawns the engine when none
\* is starting or running, and fails the request with AlreadyRunning
\* otherwise.
BackendSpawn(i) ==
  /\ i \in 1..Len(pyStarts)
  /\ pyStarts[i] = "sent"
  /\ IF pyProc = "stopped"
       THEN /\ pyProc' = "starting"
            /\ engProcs' = engProcs + 1
            /\ pyStarts' = [pyStarts EXCEPT ![i] = "spawned"]
            /\ note' = ""
       ELSE /\ pyStarts' = [pyStarts EXCEPT ![i] = "fail"]
            /\ note' = "already_running"
            /\ UNCHANGED <<pyProc, engProcs>>
  /\ UNCHANGED <<spawnFrame, pythonStatus, logs, logIdRef, appEvents>>

\* The starting engine reports readiness (the request that spawned it
\* succeeds), or exits before it does (the request fails).
BackendStarted(i, ready) ==
  /\ i \in 1..Len(pyStarts)
  /\ pyStarts[i] = "spawned"
  /\ ready => Len(appEvents) < MaxQueue
  /\ pyStarts' = [pyStarts EXCEPT ![i] = IF ready THEN "ok" ELSE "fail"]
  /\ pyProc' = (IF ready THEN "running" ELSE "stopped")
  /\ engProcs' = (IF ready THEN engProcs ELSE engProcs - 1)
  /\ appEvents' = (IF ready THEN Append(appEvents, AppEvent("ready", "info", "ready"))
                   ELSE appEvents)
  /\ note' = ""
  /\ UNCHANGED <<spawnFrame, pythonStatus, logs, logIdRef>>

\* handleStartPython after invoke("start_python_executor_with_type"); with a
\* configuration loaded it goes on to invoke("load_configuration").
StartPythonCallResult(i) ==
  /\ i \in 1..Len(pyStarts)
  /\ pyStarts[i] \in {"ok", "fail"}
  /\ IF pyStarts[i] = "ok"
       THEN /\ pythonStatus' = "running"
            /\ Log(<<LogCandidate("success", SimpleMsg("python_started"))>>)
            /\ pyStarts' = (IF configLoaded THEN [pyStarts EXCEPT ![i] = "resend"]
                            ELSE RemoveAt(pyStarts, i))
       ELSE /\ UNCHANGED pythonStatus
            /\ Log(<<LogCandidate("error", SimpleMsg("python_failed"))>>)
            /\ pyStarts' = RemoveAt(pyStarts, i)
  /\ note' = ""
  /\ UNCHANGED <<spawnFrame, pyProc, engProcs, appEvents>>

\* handleStartPython after invoke("load_configuration").
ResendResult(i, ok) ==
  /\ i \in 1..Len(pyStarts)
  /\ pyStarts[i] = "resend"
  /\ Log(<<IF ok THEN LogCandidate("info", SimpleMsg("configuration_sent"))
           ELSE LogCandidate("warning", SimpleMsg("configuration_not_sent"))>>)
  /\ pyStarts' = RemoveAt(pyStarts, i)
  /\ note' = ""
  /\ UNCHANGED <<spawnFrame, pythonStatus, pyProc, engProcs, appEvents>>

NextSpawn ==
  \/ \E how \in {"ok", "throw"} : CheckPythonStatusResult(how)
  \/ AppListenResolved
  \/ DeliverAppEvent
  \/ ClearAllLogs
  \/ HandleStartPython
  \/ \E i \in 1..Len(pyStarts) : BackendSpawn(i)
  \/ \E i \in 1..Len(pyStarts), ready \in BOOLEAN : BackendStarted(i, ready)
  \/ \E i \in 1..Len(pyStarts) : StartPythonCallResult(i)

SpecSpawn == InitApp /\ [][NextSpawn]_vars

\* -------------------------------------------------------------- engine stop
\* App of src/src/App.tsx with an engine that runs at mount: a configuration
\* is loaded without starting the engine, executions are started and
\* stopped, the engine is stopped by hand.

engineFrame == <<configLoaded, now, recOwn, codec, indVars, appCalls, appUi, appListener,
                 statusCheck, pyStarts, imageLogs, actionLogs, engSeq>>

\* The file dialog returns: with a file selected, invoke("load_configuration").
DialogResultDirect(selected) ==
  /\ loadStage = Stage("dialog")
  /\ loadStage' = (IF selected THEN Stage("loading") ELSE Stage("none"))
  /\ note' = ""
  /\ UNCHANGED <<propVars, now, recOwn, codec, indVars, stopPy, loadPy, execCmd, execProc,
                 stopExec, appEngine, appUi, appMount, logs, logIdRef>>

\* handleStopPython up to its await; the button is disabled while
\* pythonStatus is "stopped".
HandleStopPython ==
  /\ pythonStatus # "stopped"
  /\ stopPy = "none"
  /\ stopPy' = "sent"
  /\ note' = ""
  /\ UNCHANGED <<engineFrame, pythonStatus, pyProc, engProcs, engExecuting,
                 appEvents, logs, logIdRef>>

\* The supervisor handles stop_python_executor: a running engine is
\* terminated, and what it was executing ends with it.
BackendStopPython(how) ==
  /\ stopPy = "sent"
  /\ how = "ok" => pyProc = "running"
  /\ stopPy' = how
  /\ IF how = "ok"
       THEN pyProc' = "stopped" /\ engProcs' = engProcs - 1 /\ engExecuting' = FALSE
       ELSE UNCHANGED <<pyProc, engProcs, engExecuting>>
  /\ note' = ""
  /\ UNCHANGED <<engineFrame, pythonStatus, appEvents, logs, logIdRef>>

\* Variant of StopPythonResult as stopPythonExecutor of the earlier App has
\* it: a successful stop also clears the execution flag.
StopPythonResult_ClearsExecution ==
  /\ stopPy \in Outcomes
  /\ stopPy' = "none"
  /\ pythonStatus' = (IF stopPy = "ok" THEN "stopped" ELSE pythonStatus)
  /\ executionActive' = (stopPy # "ok" /\ executionActive)
  /\ IF stopPy = "ok" THEN Log(<<LogCandidate("info", SimpleMsg("python_stopped"))>>)
     ELSE IF stopPy = "throw"
       THEN Log(<<LogCandidate("error", SimpleMsg("stop_python_threw"))>>)
     ELSE UNCHANGED <<logs, logIdRef>>
  /\ note' = (IF stopPy = "ok" THEN "python_stopped" ELSE "")
  /\ UNCHANGED <<configLoaded, now, recOwn, codec, indVars, appCalls, selectedProcess,
                 processes, appEngine, appMount>>

\* handleStopPython after its await.
StopPythonResult ==
  /\ stopPy \in Outcomes
  /\ stopPy' = "none"
  /\ pythonStatus' = (IF stopPy = "ok" THEN "stopped" ELSE pythonStatus)
  /\ IF stopPy = "ok" THEN Log(<<LogCandidate("info", SimpleMsg("python_stopped"))>>)
     ELSE IF stopPy = "throw"
       THEN Log(<<LogCandidate("error", SimpleMsg("stop_python_threw"))>>)
     ELSE UNCHANGED <<logs, logIdRef>>
  /\ note' = (IF stopPy = "ok" THEN "python_stopped" ELSE "")
  /\ UNCHANGED <<engineFrame, pyProc, engProcs, engExecuting, appEvents>>

NextEngine ==
  \/ \E how \in {"ok", "throw"} : CheckPythonStatusResult(how)
  \/ AppListenResolved
  \/ DeliverAppEvent
  \/ ClearAllLogs
  \/ HandleLoadConfiguration
  \/ \E selected \in BOOLEAN : DialogResultDirect(selected)
  \/ \E how \in {"loaded", "load_fail"}, all \in 0..MaxProcs, main \in 0..MaxProcs :
       EngineLoadConfiguration(how, all, main)
  \/ LoadConfigurationResult
  \/ HandleStopPython
  \/ \E how \in {"ok", "fail"} : BackendStopPython(how)
  \/ StopPythonResult
  \/ HandleStartExecution(FALSE)
  \/ \E how \in {"ok", "fail"} : EngineStartExecution(how)
  \/ StartExecutionResult
  \/ HandleStopExecution
  \/ \E how \in {"ok", "fail"} : EngineStopExecution(how)
  \/ StopExecutionResult

SpecEngine == InitApp /\ [][NextEngine]_vars

\* ------------------------------------------------------------ command channel
\* Commands on their way to the engine.

\* The Command Facade submits command c: its line goes onto the wire.  One
\* command is followed from the facade to the reader.
SubmitCommand(c) ==
  /\ codec = IdleCodec
  /\ codec' = [cmd |-> c, wire |-> Encode(c), decoded |-> NoCommand]
  /\ note' = ""
  /\ UNCHANGED <<propVars, now, recOwn, appOwn, stopPy, indVars>>

\* The reader takes the line off the wire and decodes it.
ReceiveCommand ==
  /\ codec.wire # <<>>
  /\ codec' = [codec EXCEPT !.wire = <<>>, !.decoded = Decode(codec.wire)]
  /\ note' = ""
  /\ UNCHANGED <<propVars, now, recOwn, appOwn, stopPy, indVars>>

NextCodec ==
  \/ \E c \in Commands : SubmitCommand(c)
  \/ ReceiveCommand

SpecCodec == InitApp /\ [][NextCodec]_vars

\* -------------------------------------------------------------- engine faults
\* App with an engine that reports errors and may exit unexpectedly.

\* The engine process exits unexpectedly; the backend reports it as an error
\* event.
EngineCrashes ==
  /\ pyProc = "running"
  /\ Len(appEvents) < MaxQueue
  /\ pyProc' = "crashed"
  /\ engExecuting' = FALSE
  /\ appEvents' = Append(appEvents, AppEvent("error", "error", "crashed"))
  /\ note' = ""
  /\ UNCHANGED <<propVars, now, recVars, appCalls, appUi, appMount, logs, logIdRef>>

NextFault ==
  \/ Tick
  \/ \E how \in {"ok", "throw"} : CheckPythonStatusResult(how)
  \/ AppListenResolved
  \/ DeliverAppEvent
  \/ \E name \in {"log", "error"}, level \in LogLevels, text \in LogTexts :
       EngineEmits(name, level, text)
  \/ EngineCrashes
  \/ ClearAllLogs
  \/ HandleLoadConfiguration
  \/ \E selected \in BOOLEAN : DialogResult(selected)
  \/ \E how \in Outcomes : EngineSpawn(how)
  \/ StartPythonResult
  \/ WaitDone
  \/ \E how \in {"loaded", "load_fail", "load_throw"}, all \in 0..MaxProcs, main \in 0..MaxProcs :
       EngineLoadConfiguration(how, all, main)
  \/ LoadConfigurationResult

SpecFault == InitApp /\ [][NextFault]_vars

\* ------------------------------------------------------ the status indicator
\* StatusIndicator of src/unnamed/part_002: the error notification, its
\* auto-hide timer and the connection status.  hideTimers carries the time
\* each pending setTimeout callback has left; App and RecordingControl are
\* at rest.

indFrame == <<propVars, now, recOwn, appOwn, codec, stopPy>>

\* listen('error') and listen('connection-status') of the mount effect
\* resolve: the two handlers are registered.
IndicatorListenResolved ==
  /\ errorListener = "pending"
  /\ errorListener' = "registered"
  /\ note' = ""
  /\ UNCHANGED <<indFrame, error, showError, connectionStatus, hideTimers>>

\* The 'error' handler: the notification replaces the one held and is shown;
\* an info notification starts a timer that hides the display 5 s later.
\* Nothing keeps the timer's id, so it is never cleared.
OnErrorEvent(payload) ==
  /\ errorListener = "registered"
  /\ payload.severity = "info" => Len(hideTimers) < MaxHideTimers
  /\ error' = payload
  /\ showError' = TRUE
  /\ hideTimers' = (IF payload.severity = "info"
                    THEN Append(hideTimers, AutoHideSeconds)
                    ELSE hideTimers)
  /\ note' = ""
  /\ UNCHANGED <<indFrame, connectionStatus, errorListener>>

\* The 'connection-status' handler.
OnConnectionStatus(status) ==
  /\ errorListener = "registered"
  /\ connectionStatus' = status
  /\ note' = ""
  /\ UNCHANGED <<indFrame, error, showError, errorListener, hideTimers>>

\* The X button of the error display, rendered while showError && error.
DismissError ==
  /\ showError /\ error # NoError
  /\ showError' = FALSE
  /\ note' = ""
  /\ UNCHANGED <<indFrame, error, connectionStatus, errorListener, hideTimers>>

\* One second passes; a timer that is due fires before the next one does.
HideTimersElapse ==
  /\ hideTimers # <<>>
  /\ \A i \in 1..Len(hideTimers) : hideTimers[i] > 0
  /\ hideTimers' = [i \in 1..Len(hideTimers) |-> hideTimers[i] - 1]
  /\ note' = ""
  /\ UNCHANGED <<indFrame, error, showError, connectionStatus, errorListener>>

\* The callback of a timer that is due: setShowError(false), whatever is
\* displayed by now.
HideTimerFires ==
  /\ hideTimers # <<>>
  /\ Head(hideTimers) = 0
  /\ hideTimers' = Tail(hideTimers)
  /\ showError' = FALSE
  /\ note' = ""
  /\ UNCHANGED <<indFrame, error, connectionStatus, errorListener>>

NextIndicator ==
  \/ IndicatorListenResolved
  \/ \E payload \in ErrorEvents : OnErrorEvent(payload)
  \/ \E status \in ConnectionStatuses : OnConnectionStatus(status)
  \/ DismissError
  \/ HideTimersElapse
  \/ HideTimerFires

SpecIndicator == InitApp /\ [][NextIndicator]_vars

\* ---------------------------------------------------------------- the sinks
\* The three sinks of the executor-event listener of src/unnamed/part_001
\* (general log, recognition diagnostics, action diagnostics) under a stream
\* of events with increasing sequence numbers.

SinkEvents == {"log", "image_recognition", "action_execution"}

\* An event of the stream: its payload names its sequence number.
SeqEvent(name, seq) ==
  [event |-> name, level |-> "info", message |-> Msg("seq", 0, seq, 0, 0),
   sequence |-> seq]

\* The engine emits its next event.
EmitNext(name) ==
  /\ pyProc = "running"
  /\ engSeq < MaxSeq
  /\ Len(appEvents) < MaxQueue
  /\ engSeq' = engSeq + 1
  /\ appEvents' = Append(appEvents, SeqEvent(name, engSeq + 1))
  /\ note' = ""
  /\ UNCHANGED <<propVars, now, recVars, appCalls, pyProc, engExecuting, appUi,
                 appStart, imageLogs, actionLogs, logs, logIdRef>>

NextSinks ==
  \/ Tick
  \/ \E how \in {"ok", "throw"} : CheckPythonStatusResult(how)
  \/ AppListenResolved
  \/ DeliverAppEvent
  \/ \E name \in SinkEvents : EmitNext(name)
  \/ \E tab \in {"general", "image", "actions"} : ClearLogs(tab)
  \/ ClearAllLogs

SpecSinks == InitApp /\ [][NextSinks]_vars

\* The channel hands the listener a message again: the event the engine
\* emitted before its latest one, with the sequence number it had then.
EmitStale(name, seq) ==
  /\ pyProc = "running"
  /\ seq + 1 = engSeq
  /\ Len(appEvents) < MaxQueue
  /\ appEvents' = Append(appEvents, SeqEvent(name, seq))
  /\ note' = ""
  /\ UNCHANGED <<propVars, now, recVars, appCalls, pyProc, engExecuting, appUi,
                 appMount, logs, logIdRef>>

NextStale ==
  \/ \E how \in {"ok", "throw"} : CheckPythonStatusResult(how)
  \/ AppListenResolved
  \/ DeliverAppEvent
  \/ \E name \in SinkEvents : EmitNext(name)
  \/ \E name \in SinkEvents, seq \in 1..MaxSeq : EmitStale(name, seq)
  \/ ClearAllLogs

SpecStale == InitApp /\ [][NextStale]_vars

\* =================================================================== claims

HistoryMax == HistoryKeep + 1

\* The step delivers the oldest queued event, which is `name`.
Delivered(name) ==
  /\ events # <<>>
  /\ Head(events).event = name
  /\ events' = Tail(events)

\* history' is history with exactly k entries put in front and the oldest
\* entries beyond HistoryMax dropped, the rest in their previous order.
HistoryShift(k) ==
  /\ Len(history') = Min(Len(history) + k, HistoryMax)
  /\ \A i \in (k + 1)..Len(history') : history'[i] = history[i - k]

\* The step hands query i of polls its result.
PollReturned(i) == i \in 1..Len(polls) /\ polls' = RemoveAt(polls, i)

Idle == recordingStatus = RecStatus(FALSE, 0, NoStats)

\* C1: every recording_stopped event delivered while the session is
\* Recording appends exactly one entry to the history.
C1_OneEntryPerStop ==
  [][ (Delivered("recording_stopped") /\ recordingStatus.isRecording)
        => (HistoryShift(1) /\ history'[1].runId = Head(events).run_id) ]_vars

\* C2: once the session is not Recording, a status-poll response does not
\* change it.
C2_NoPollAfterStop ==
  [][ \A i \in 1..Len(polls) :
        (PollReturned(i) /\ ~recordingStatus.isRecording)
          => recordingStatus' = recordingStatus ]_vars

\* C3: the only live poll timer is the one in pollingInterval, it exists
\* exactly while the session is Recording, and a timer is created only in a
\* step in which the session enters Recording.
C3_TimerState ==
  /\ Cardinality(timers) <= 1
  /\ recordingStatus.isRecording => (pollingInterval # 0 /\ timers = {pollingInterval})
  /\ ~recordingStatus.isRecording => (pollingInterval = 0 /\ timers = {})
C3_TimerCreation ==
  (timers' \ timers) # {} => (~recordingStatus.isRecording /\ recordingStatus'.isRecording)
C3_PollTimer == [](C3_TimerState) /\ [][C3_TimerCreation]_vars
\* A timer was created and cancelled, and the session is not Recording.
C3_Witness == nextTimer > 1 /\ ~recordingStatus.isRecording /\ timers = {}

\* C4: the session becomes Recording only in a step that delivers the
\* recording_started event.
C4_OnlyEventStarts ==
  [][ (~recordingStatus.isRecording /\ recordingStatus'.isRecording)
        => Delivered("recording_started") ]_vars

C7_HistoryBound ==
  /\ [](Len(history) <= HistoryMax)
  /\ [][ history' # history
           => (Len(Recipients) >= 1 /\ HistoryShift(Len(Recipients))) ]_vars
\* A full stored history after one more entry: the oldest entry is gone.
C7_Witness ==
  /\ Len(history) = 5
  /\ history[1].runId > 0
  /\ history[2] = OldEntry(5)
  /\ history[5] = OldEntry(2)

SameLog(a, b) ==
  a.timestamp = b.timestamp /\ a.level = b.level /\ a.message = b.message

\* C8: no two adjacent entries of the general log agree in timestamp, level
\* and message; a candidate that agrees in all three with the last entry is
\* dropped, any other candidate is appended.
C8_NoAdjacentDuplicates ==
  /\ [](\A i \in 1..(Len(logs) - 1) : ~SameLog(logs[i], logs[i + 1]))
  /\ [][ (appEvents # <<>> /\ appEvents' = Tail(appEvents) /\ appListener = "registered")
           => LET cand == EventLogs(Head(appEvents))[1]
              IN  IF logs # <<>> /\ SameLog(logs[Len(logs)], cand)
                    THEN logs' = logs
                    ELSE /\ Len(logs') = Len(logs) + 1
                         /\ SubSeq(logs', 1, Len(logs)) = logs
                         /\ SameLog(logs'[Len(logs')], cand) ]_vars
\* A candidate was just dropped, and the log holds two equal entries that
\* are not adjacent.
C8_Witness ==
  /\ note = "log_dropped"
  /\ \E i, j \in 1..Len(logs) : j > i + 1 /\ SameLog(logs[i], logs[j])

\* C9: a successful status poll reporting is_recording false, applied while
\* the session is Recording, leaves the session not Recording with no poll
\* timer alive, and no status query is issued while no timer is alive.
C9_PollStops ==
  [][ /\ \A i \in 1..Len(polls) :
           ( /\ PollReturned(i)
             /\ polls[i].state = "answered" /\ ~polls[i].is_recording
             /\ recordingStatus.isRecording )
           => ( /\ ~recordingStatus'.isRecording
                /\ timers' = {}
                /\ pollingInterval' = 0 )
      \* a status query is issued only by a live timer of a Recording session
      /\ Len(polls') > Len(polls)
           => (recordingStatus.isRecording /\ timers # {}) ]_vars
\* Such a poll has just been applied.
C9_Witness ==
  /\ note = "poll_stopped"
  /\ ~recordingStatus.isRecording
  /\ timers = {}

\* C10: a failed status poll leaves state, directory and statistics as they
\* were.
C10_FailedPollKeeps ==
  [][ note' = "poll_failed" => recordingStatus' = recordingStatus ]_vars
C10_Witness ==
  /\ note = "poll_failed"
  /\ recordingStatus.isRecording
  /\ recordingStatus.statistics.def

\* C11: a successful status poll applied while the session is Recording
\* leaves recordingStatus equal to the response: its is_recording, its
\* snapshot_directory and its statistics.
C11_PollOverwrites ==
  [][ \A i \in 1..Len(polls) :
        (PollReturned(i) /\ polls[i].state = "answered" /\ recordingStatus.isRecording)
          => recordingStatus' = RecStatus(polls[i].is_recording, polls[i].dir,
                                          polls[i].statistics) ]_vars
\* A poll has replaced the statistics of a Recording session by the engine's:
\* only a poll puts statistics on the session.
C11_Witness ==
  /\ recordingStatus.isRecording
  /\ recordingStatus.statistics = SomeStats(3, 2)
  /\ polls = <<>>

\* C12: when the crash of the engine is reported to a session that is
\* Recording with statistics {3, 2}, the session is left not Recording, the
\* newest history entry is a failed one with 3 actions and 2 screenshots, and
\* no poll timer stays alive.
C12_CrashStops ==
  [][ (Delivered("error") /\ recordingStatus.isRecording
         /\ recordingStatus.statistics = SomeStats(3, 2))
        => ( /\ ~recordingStatus'.isRecording
             /\ timers' = {}
             /\ history' # <<>>
             /\ history'[1].status = "failed"
             /\ history'[1].actionCount = 3
             /\ history'[1].screenshotCount = 2 ) ]_vars

\* C13: an event is handled by at most one listener of the component, and by
\* no listener whose effect instance has been cleaned up.
C13_OneLiveListener ==
  [][ (events # <<>> /\ events' = Tail(events))
        => (Len(Recipients) <= 1 /\ SelectSeq(zombies, Registered) = <<>>) ]_vars

\* The step delivers the oldest event of App's channel, which is `name`, to
\* App's registered listener.
DeliveredApp(name) ==
  /\ appEvents # <<>>
  /\ Head(appEvents).event = name
  /\ appEvents' = Tail(appEvents)
  /\ appListener = "registered"

\* C14: the execution flag is set when an execution_started event is handled
\* and cleared when an execution_completed event is handled.
C14_ExecutionFollowsEvents ==
  [][ /\ DeliveredApp("execution_started") => executionActive'
      /\ DeliveredApp("execution_completed") => ~executionActive' ]_vars

SinkPayload(entry) ==
  IF "payload" \in DOMAIN entry THEN entry.payload ELSE entry.message
FromStream(entry) == SinkPayload(entry).text = "seq"
SinkSeqs(sink) ==
  LET es == SelectSeq(sink, FromStream)
  IN  [i \in 1..Len(es) |-> SinkPayload(es[i]).a]
Increasing(q) == \A i \in 1..Len(q), j \in 1..Len(q) : i < j => q[i] < q[j]

\* The sink an event of the stream goes to.
SinkOf(name, l, i, a) ==
  IF name = "log" THEN l ELSE IF name = "image_recognition" THEN i ELSE a

\* C16: under events with increasing sequence numbers, each sink holds its
\* entries in the order their events were received: a received event puts
\* its entry behind the entries its sink already holds, and leaves the other
\* sinks alone.
C16_SinkOrder ==
  /\ [](/\ Increasing(SinkSeqs(logs))
        /\ Increasing(SinkSeqs(imageLogs))
        /\ Increasing(SinkSeqs(actionLogs)))
  /\ [][ \A name \in SinkEvents :
           DeliveredApp(name) =>
             LET e    == Head(appEvents)
                 old  == SinkOf(name, logs, imageLogs, actionLogs)
                 new  == SinkOf(name, logs', imageLogs', actionLogs')
             IN  /\ Len(new) = Len(old) + 1
                 /\ SubSeq(new, 1, Len(old)) = old
                 /\ SinkPayload(new[Len(new)]) = e.message
                 /\ name # "log" => logs' = logs
                 /\ name # "image_recognition" => imageLogs' = imageLogs
                 /\ name # "action_execution" => actionLogs' = actionLogs ]_vars
\* Two sinks hold two entries each, from events received alternately.
C16_Witness ==
  /\ SinkSeqs(imageLogs) = <<1, 3>>
  /\ SinkSeqs(actionLogs) = <<2, 4>>

\* The sequence numbers the sinks show: each was observed by the listener.
ShownSeqs ==
  {SinkSeqs(logs)[i] : i \in 1..Len(SinkSeqs(logs))}
    \cup {SinkSeqs(imageLogs)[i] : i \in 1..Len(SinkSeqs(imageLogs))}
    \cup {SinkSeqs(actionLogs)[i] : i \in 1..Len(SinkSeqs(actionLogs))}

\* C17: an event whose sequence number is lower than one already observed
\* is not applied: handling it changes no sink and no session state.
C17_StaleNotApplied ==
  [][ \A name \in SinkEvents :
        (DeliveredApp(name) /\ \E q \in ShownSeqs : Head(appEvents).sequence < q)
          => UNCHANGED <<logs, imageLogs, actionLogs, pythonStatus, configLoaded,
                         executionActive, recordingStatus>> ]_vars

\* The step takes the session from Recording to Stopped.
StopTransition == recordingStatus.isRecording /\ ~recordingStatus'.isRecording

\* Import requests the step makes.
NewImports == SubSeq(imports', Len(imports) + 1, Len(imports'))

\* A recording_stopped event for directory d is still to be handled.
StopQueued(q, d) ==
  \E i \in 1..Len(q) : q[i].event = "recording_stopped" /\ q[i].dir = d

\* C18: with auto-import enabled a transition from Recording to Stopped
\* comes with exactly one import request for the stopped session's directory
\* (made by the step itself, or by the recording_stopped event the step
\* leaves queued for this directory); with auto-import disabled the
\* transition makes no import request.
C18_OneImportPerStop ==
  [][ StopTransition =>
        LET d == recordingStatus'.snapshotDirectory
        IN  IF autoImport
              THEN \/ NewImports = <<d>>
                   \/ NewImports = <<>> /\ StopQueued(events', d)
              ELSE NewImports = <<>> ]_vars

\* The step is a failed import request returning.
ImportFailed == Len(imports') < Len(imports) /\ note' = "import_failed"

\* C19: an import request that fails leaves the session's state, directory
\* and statistics, its start time, the polling timer and the history as they
\* were; it reports the failure to the log and resets the importing flag.
C19_FailedImportKeeps ==
  [][ ImportFailed =>
        /\ UNCHANGED <<recordingStatus, history, recordingStartTime,
                       pollingInterval, timers, autoImport>>
        /\ ~isImporting'
        /\ lastLog'.level = "error"
        /\ lastLog'.message.text = "Failed to import snapshot" ]_vars
\* An import for a stopped session has just failed: the session still shows
\* its directory and the stop is in the history.
C19_Witness ==
  /\ note = "import_failed"
  /\ ~recordingStatus.isRecording
  /\ recordingStatus.snapshotDirectory # 0
  /\ history # <<>>
  /\ history[1].directory = recordingStatus.snapshotDirectory
  /\ ~isImporting

\* The step is handleStopRecording receiving a successful result.
StopSucceeded == stopCmd = "ok" /\ stopCmd' = "none"

\* C20: a session that goes from Recording to Stopped, by a handled
\* recording_stopped event or by a successful stop command, still carries
\* the statistics it had just before the stop.
C20_StopKeepsStatistics ==
  [][ (StopTransition /\ (Delivered("recording_stopped") \/ StopSucceeded))
        => recordingStatus'.statistics = recordingStatus.statistics ]_vars

\* The step is handleStartRecording receiving its result.
StartReturned == startCmd # "none" /\ startCmd # "sent" /\ startCmd' = "none"

\* C21: the session changes only in a step that applies the result of the
\* start command, handles a recording_started or recording_stopped event, or
\* applies a status-poll result; the result of a stop command does not take
\* the session out of Recording.
C21_SessionWriters ==
  [][ /\ recordingStatus' # recordingStatus
          => \/ StartReturned
             \/ Delivered("recording_started")
             \/ Delivered("recording_stopped")
             \/ \E i \in 1..Len(polls) : PollReturned(i)
      /\ StopSucceeded => recordingStatus'.isRecording = recordingStatus.isRecording ]_vars

\* The step is checkPythonStatus receiving its answer.
StatusChecked == statusCheck = "sent" /\ statusCheck' = "done"

\* C22: the engine comes to be shown as running only in a step that handles
\* its ready event (or that learns from the status query at mount that an
\* engine already runs); applying the result of a successful spawn request
\* does not make it running.
C22_RunningOnReady ==
  [][ (pythonStatus # "running" /\ pythonStatus' = "running")
        => (DeliveredApp("ready") \/ StatusChecked) ]_vars

\* C23: every error notification of the engine that the listener receives
\* leaves the general log ending in an error entry with the notification's
\* message, and starts no engine: no process is spawned and no start request
\* is issued.
C23_ErrorLogged ==
  [][ DeliveredApp("error") =>
        /\ logs' # <<>>
        /\ logs'[Len(logs')].level = "error"
        /\ logs'[Len(logs')].message = Head(appEvents).message
        /\ UNCHANGED <<pyProc, engProcs, loadStage, pyStarts>> ]_vars
\* The crash of the engine has been reported and logged; the engine is still
\* down.
C23_Witness ==
  /\ pyProc = "crashed"
  /\ appEvents = <<>>
  /\ logs # <<>>
  /\ logs[Len(logs)].level = "error"
  /\ logs[Len(logs)].message = SimpleMsg("crashed")
  /\ engProcs = 1

\* The positions of w that hold a line feed.
LineFeeds(w) == {i \in 1..Len(w) : w[i] = "newline"}

C25_OneEntryPerSession ==
  [][ StopTransition =>
        LET d == recordingStatus'.snapshotDirectory
        IN  \/ HistoryShift(1) /\ history'[1].directory = d
            \/ history' = history /\ StopQueued(events', d) ]_vars

\* C26: every history entry written when recording_stopped is handled for a
\* Recording session holds the whole seconds between the session's recorded
\* start time and the stop time.
C26_DurationOfSession ==
  [][ (Delivered("recording_stopped") /\ recordingStatus.isRecording)
        => \A i \in 1..(Len(history') - Len(history)) :
              /\ recordingStartTime # 0
              /\ history'[i].duration = (now - recordingStartTime) \div MsPerSecond ]_vars

\* The step is a start or stop command coming back failed.
StartFailed == startCmd \in {"fail", "throw"} /\ startCmd' = "none"
StopFailed  == stopCmd \in {"fail", "throw"} /\ stopCmd' = "none"

\* C27: a start or stop command that comes back unsuccessful or throws
\* leaves the session, its start time, the poll timer and the history as
\* they were and reports the failure as an error log entry.
C27_FailedCommandKeeps ==
  [][ (StartFailed \/ StopFailed) =>
        /\ UNCHANGED <<recordingStatus, recordingStartTime, history,
                       pollingInterval, timers>>
        /\ lastLog'.level = "error"
        /\ lastLog'.message.text = (IF StartFailed THEN "Failed to start recording"
                                                   ELSE "Failed to stop recording") ]_vars
\* A stop command has just failed on a session that is Recording, which
\* still is Recording with its start time and poll timer.
C27_Witness ==
  /\ note = "stop_failed"
  /\ recordingStatus.isRecording
  /\ recordingStartTime # 0
  /\ timers # {}
  /\ lastLog.level = "error"

\* C28: every image_recognition event handled appends exactly one entry, made
\* from the event, to the recognition sink, and every action_execution event
\* exactly one to the action sink, also when the same event is handled
\* again; the other diagnostic sink and the general log stay as they are.
C28_DiagnosticSinks ==
  [][ /\ DeliveredApp("image_recognition")
          => /\ imageLogs' = Append(imageLogs, DiagEntry(Head(appEvents), logIdRef + 1))
             /\ UNCHANGED <<actionLogs, logs>>
      /\ DeliveredApp("action_execution")
          => /\ actionLogs' = Append(actionLogs, DiagEntry(Head(appEvents), logIdRef + 1))
             /\ UNCHANGED <<imageLogs, logs>> ]_vars
\* The recognition sink holds three entries, two of them from the same event
\* handled twice, and the action sink one.
C28_Witness ==
  /\ SinkSeqs(imageLogs) = <<1, 2, 1>>
  /\ SinkSeqs(actionLogs) = <<3>>
  /\ SinkSeqs(logs) = <<>>

\* C29: load_configuration is issued right after the file dialog only when
\* the engine was seen running, and otherwise only after a successful engine
\* start and the wait that follows it; a failed engine start ends the load:
\* no load_configuration is issued, and the process list, the selected
\* process and the configLoaded flag keep their values.
C29_NoLoadWithoutEngine ==
  [][ /\ (loadStage.at # "loading" /\ loadStage'.at = "loading")
          => \/ loadStage.at = "dialog" /\ loadPy = "running"
             \/ loadStage.at = "wait"
      /\ (loadStage.at # "wait" /\ loadStage'.at = "wait") => loadStage.at = "ok"
      /\ (loadStage.at = "dialog" /\ loadStage'.at = "startpy") => loadPy # "running"
      /\ (loadStage.at \in {"fail", "throw"} /\ loadStage' # loadStage)
          => /\ loadStage' = Stage("none")
             /\ UNCHANGED <<configLoaded, processes, selectedProcess>>
             /\ logs' # <<>>
             /\ logs'[Len(logs')].level = "error"
             /\ logs'[Len(logs')].message = SimpleMsg("cannot_load") ]_vars
\* The engine start of a load has just failed: the load is over and nothing
\* is loaded.
C29_Witness ==
  /\ note = "start_python_failed"
  /\ loadStage = Stage("none")
  /\ pythonStatus = "stopped"
  /\ ~configLoaded
  /\ processes = {}
  /\ selectedProcess = 0
  /\ Len(logs) >= 2
  /\ logs[Len(logs)].message = SimpleMsg("cannot_load")

\* C30: the execution is Active only while the engine runs: when a
\* successful engine stop has been applied, the execution flag is not Active.
C30_NoExecutionWithoutEngine ==
  [][ (stopPy = "ok" /\ stopPy' = "none") => ~executionActive' ]_vars

\* The error display shows a notification of severity sev.
Displayed(sev) == showError /\ error # NoError /\ error.severity = sev

\* C31: an error notification whose severity is not info stays displayed
\* until the user dismisses it or a newer notification replaces it: a step
\* that takes a displayed warning, error or critical notification off the
\* display is the click on its X button, never the auto-hide timer of an
\* earlier info notification.
C31_SevereStaysDisplayed ==
  [][ ((\E sev \in Severities \ {"info"} : Displayed(sev)) /\ ~showError')
        => DismissError ]_vars

====
